---------------------------- MODULE Spec2Model ----------------------------
(***************************************************************************)
(* rss2email: the feed database (src/src/model.rs) and the commands of     *)
(* main_impl (src/src/main.rs) that drive it.                              *)
(*                                                                         *)
(* One process at a time runs one command of main_impl on the database     *)
(* file DB_PATH.  A command opens (or creates) the in-memory Database,     *)
(* calls one of its methods and commits.  A fetch command runs one         *)
(* fetch-and-send session: it pumps the Fetcher's stream, hands every new  *)
(* item to the Sender and records it.                                      *)
(*                                                                         *)
(* The file system, the network and the mail server are the environment:   *)
(* every call into them may succeed or fail, chosen with \E.               *)
(***************************************************************************)
EXTENDS Integers, FiniteSets, Sequences, TLC

(***************************************************************************)
(* Bounds of the model.                                                    *)
(***************************************************************************)
\* Number of fetch commands that may run; the clock of a session is its number.
MaxSessions == 2

\* Feed URLs a user may name on the command line.
Urls == {"u1", "u2"}

\* Item ids a parsed feed may carry.
ItemIds == {"a", "b"}

\* Option::None
None == "None"

\* Titles a fetched feed may carry (parse_syndication always yields Some).
FeedTitles == {"T1"}

\* All (feed URL, item id) pairs.
Pairs == Urls \X ItemIds

\* The pair whose calls of the Sender are followed over the life of the store
\* (the model is symmetric in the URLs and in the item ids).
Watched == <<"u1", "a">>

(***************************************************************************)
(* HashMap<K, V> as a function with a finite domain.                       *)
(***************************************************************************)
EmptyMap == << >>

\* HashMap::insert
Put(m, k, v) == [x \in (DOMAIN m) \cup {k} |-> IF x = k THEN v ELSE m[x]]

\* HashMap::remove
Del(m, k) == [x \in (DOMAIN m) \ {k} |-> m[x]]

(***************************************************************************)
(* Feed and FeedItem (model.rs 242-266).  last_observed is the clock of    *)
(* the session that parsed the item.  title stands for the three           *)
(* skip_serializing fields of FeedItem (title, link, content).             *)
(***************************************************************************)
\* Faulty: a new feed starts with the record of an item.
FeedWithStaleItem ==
    [title |-> None,
     items |-> [i \in {"a"} |-> [last_observed |-> 0, title |-> None]]]

\* Feed::new
NewFeed == [title |-> None, items |-> EmptyMap]

\* A FeedItem as parse_syndication builds it at time now.
ParsedItem(now) == [last_observed |-> now, title |-> "entry"]

\* A Feed as the fetcher yields it: a title and the items with the ids in ids.
ParsedFeed(t, ids, now) == [title |-> t, items |-> [i \in ids |-> ParsedItem(now)]]

(***************************************************************************)
(* serde_json of HashMap<String, Feed>.  Serialize skips title, link and   *)
(* content of every FeedItem; Deserialize reads a missing Option as None.  *)
(***************************************************************************)
\* Faulty: a feed without items is not written.
ToJsonDropsEmptyFeeds(feeds) ==
    [u \in {v \in DOMAIN feeds : DOMAIN feeds[v].items # {}} |->
        [title |-> feeds[u].title,
         items |-> [i \in DOMAIN feeds[u].items |->
                       [last_observed |-> feeds[u].items[i].last_observed]]]]

\* serde_json::to_writer(&self.feeds)
ToJson(feeds) ==
    [u \in DOMAIN feeds |->
        [title |-> feeds[u].title,
         items |-> [i \in DOMAIN feeds[u].items |->
                       [last_observed |-> feeds[u].items[i].last_observed]]]]

\* Faulty: the document is read as an empty map.
FromJsonEmpty(json) == EmptyMap

\* serde_json::from_reader
FromJson(json) ==
    [u \in DOMAIN json |->
        [title |-> json[u].title,
         items |-> [i \in DOMAIN json[u].items |->
                       [last_observed |-> json[u].items[i].last_observed,
                        title |-> None]]]]

(***************************************************************************)
(* Files.  kind is "nofile", "garbage" (something that is no database, or  *)
(* a partly written one) or "db" (a complete JSON document, in json).      *)
(***************************************************************************)
NoFile == [kind |-> "nofile", json |-> EmptyMap]
Garbage == [kind |-> "garbage", json |-> EmptyMap]
DbFile(json) == [kind |-> "db", json |-> json]

\* The Database value of a process that holds none.
NoDb == [open |-> FALSE, feeds |-> EmptyMap]
Db(feeds) == [open |-> TRUE, feeds |-> feeds]

\* FetchAndSendOptions::new
NoOpts == [some |-> FALSE, feed_urls |-> {}, no_send |-> FALSE]

\* No feed under reconciliation.
NoCur == [url |-> "-", title |-> None, items |-> EmptyMap, emitted |-> << >>]

VARIABLES
    disk,       \* the file at DB_PATH
    cmd,        \* the subcommand main_impl runs: "none" when no process runs
    pc,         \* the position of main_impl in that subcommand
    arg,        \* FEED_URL of add and remove
    db,         \* the process's Database
    call,       \* the Database method called last
    result,     \* what that call returned: "ok" or the error
    clock,      \* number of sessions started
    opts,       \* FetchAndSendOptions of the session
    pool,       \* feed URLs handed to the fetcher and not yet resolved
    cur,        \* (feed_url, new_feed) under reconciliation, with the order
                \* in which the parser met its items (channel.items(),
                \* raw.entries()), which the HashMap of new_feed forgets
    todo,       \* new item ids of cur not yet handled
    stopped,    \* why the session's loop ended
    batch,      \* history: feeds_to_fetch, as handed to fetcher.fetch
    db0,        \* history: self.feeds when the session began
    nsend,      \* history: calls of sender.send in this session
    sessOk,     \* history: pairs whose send returned Ok in this session
    sessFail,   \* history: pairs whose send returned Err in this session
    ncommit,    \* history: commit calls of this command
    lost,       \* history: pairs handed to the Sender in an earlier session and not
                \* recorded in the database file since (the send or the commit
                \* failed), their feed not removed since
    createOks,  \* history: Database::create calls that returned Ok (up to 2)
    watched,    \* history of the pair Watched: "never" handed to the Sender by
                \* an earlier session, "sent" (handed, its feed not removed
                \* since) or "forgotten" (handed, and its feed removed since)
    added,      \* history: URLs whose add command succeeded and that no later
                \* successful remove command removed
    listed,     \* what the list command printed
    concurrent  \* history: URLs that another process added to the database
                \* file while this command held its Database

\* The fetcher of one session in detail: NetFetcher::fetch, its worker
\* threads and the stream the session polls (model.rs 401-547).
VARIABLES
    feed_urls,  \* the Vec of feed URLs the workers share under a mutex
    thread,     \* where each worker stands in fetch_thread: "pop", "fetch",
                \* "push" or "done" (it returned, its sender is dropped)
    feed_url,   \* fetch_thread's feed_url of each worker, 0 outside its scope
    outcome,    \* what fetch_it and parse_syndication gave each worker for
                \* its feed_url: "err", "badbody" or "ok", "-" outside its scope
    pending,    \* the result each worker is pushing
    chan,       \* the results in the channel, oldest first
    parked,     \* the senders the channel has parked, oldest first
    recv_chan,  \* the receiving side: "none" before fetch, "open", "eos" once
                \* poll returned Ready(None), "dropped" once the stream is dropped
    delivered,  \* history: how many results of each URL poll handed to the
                \* consumer
    pushed,     \* history: how many results of each URL a worker pushed with
                \* success
    taken,      \* history: how often each URL was popped from feed_urls
    fetched,    \* history: the batch handed to NetFetcher::fetch
    woken       \* history: the workers blocked in send when the stream was
                \* dropped, which the closing receiver woke

\* The key and value codec of key_value.rs, as its tests drive it
\* (key_value.rs 409-445): source.to_bytes(), then from_bytes.
VARIABLES
    codec_pc,    \* "idle", "encode", "decode", "stored" or "done"
    source,      \* the key or value to encode
    other,       \* a second ItemKey, encoded beside an ItemKey source
    bytes,       \* source.to_bytes(), or the panic of its unwrap
    other_bytes, \* other.to_bytes()
    search,      \* ItemKey::new_search().with_feed_id(source.feed_id).to_bytes()
    destination, \* from_bytes(bytes)
    target       \* the type whose from_bytes reads bytes found in the store

sessVars == <<opts, pool, cur, todo, stopped, batch, db0, nsend, sessOk, sessFail>>
histVars == <<lost, createOks, added, watched>>
fileVars == <<disk>>
mainVars == <<disk, cmd, pc, arg, db, call, result, clock, opts, pool, cur,
              todo, stopped, batch, db0, nsend, sessOk, sessFail, ncommit, lost,
              createOks, added, watched, listed, concurrent>>
fetcherVars == <<feed_urls, thread, feed_url, outcome, pending, chan, parked, recv_chan,
                 delivered, pushed, taken, fetched, woken>>
codecVars == <<codec_pc, source, other, bytes, other_bytes, search, destination,
               target>>
vars == <<mainVars, fetcherVars, codecVars>>

\* The longest string of a key, in characters.
MaxStrLen == 2

\* key_value.rs 76-77
KEY_KIND_FEED == 1
KEY_KIND_ITEM == 2

\* A string is the sequence of its characters' code points; a SystemTime is
\* its distance from UNIX_EPOCH in seconds (negative before the epoch) and
\* nanoseconds.
NoTime == [secs |-> 0, nanos |-> 0]

\* No key or value.
NoValue == [type |-> "-", feed_url |-> << >>, feed_id |-> 0, item_id |-> << >>,
            when_added |-> NoTime]

\* FeedKey { feed_url } (key_value.rs 109-112)
FeedKey(url) == [NoValue EXCEPT !.type = "FeedKey", !.feed_url = url]

\* ItemKey { feed_id, item_id } (key_value.rs 244-248)
ItemKey(id, item) ==
    [NoValue EXCEPT !.type = "ItemKey", !.feed_id = id, !.item_id = item]

\* FeedValue { feed_id, when_added } (key_value.rs 193-197)
FeedValue(id, t) ==
    [NoValue EXCEPT !.type = "FeedValue", !.feed_id = id, !.when_added = t]

\* ItemValue { when_added } (key_value.rs 320-323)
ItemValue(t) == [NoValue EXCEPT !.type = "ItemValue", !.when_added = t]

\* Result<_, Error> of from_bytes
DecodeErr == [ok |-> FALSE, val |-> NoValue]
DecodeOk(v) == [ok |-> TRUE, val |-> v]

\* from_bytes does not return: the thread panics.
DecodePanic == [ok |-> FALSE, val |-> [NoValue EXCEPT !.type = "panic"]]

\* What to_bytes gives: the bytes, or the panic of an unwrap.
Panic == [panic |-> TRUE, data |-> << >>]
Bytes(d) == [panic |-> FALSE, data |-> d]

\* Nothing is being encoded: the state of the codec variables elsewhere.
CodecIdle ==
    /\ codec_pc = "idle"
    /\ source = NoValue
    /\ other = NoValue
    /\ bytes = Bytes(<< >>)
    /\ other_bytes = Bytes(<< >>)
    /\ search = << >>
    /\ destination = DecodeErr
    /\ target = "-"

\* The number of fetcher threads (model.rs 13), scaled down from 32: two
\* threads race for the pool and for the channel as thirty-two do.
NUM_FETCHERS == 2

\* model.rs 14
CHANNEL_CAPACITY == 2 * NUM_FETCHERS

\* The largest batch of feed URLs handed to the fetcher: enough for every
\* sender to be parked and one of them to push again.
MaxBatch == 6

\* The worker threads (model.rs 504)
Workers == 1 .. NUM_FETCHERS

\* The feed URLs of a batch, numbered.
BatchUrls == 1 .. MaxBatch

\* No result.
NoMsg == [kind |-> "-", url |-> 0]

\* No fetcher exists: the state of the fetcher variables outside a fetch.
FetcherIdle ==
    /\ feed_urls = << >>
    /\ thread = [w \in Workers |-> "done"]
    /\ feed_url = [w \in Workers |-> 0]
    /\ outcome = [w \in Workers |-> "-"]
    /\ pending = [w \in Workers |-> NoMsg]
    /\ chan = << >>
    /\ parked = << >>
    /\ recv_chan = "none"
    /\ delivered = [u \in BatchUrls |-> 0]
    /\ pushed = [u \in BatchUrls |-> 0]
    /\ taken = [u \in BatchUrls |-> 0]
    /\ fetched = << >>
    /\ woken = {}

(***************************************************************************)
(* Before the first command: nothing at DB_PATH, or something that is no   *)
(* database.                                                               *)
(***************************************************************************)
Init ==
    /\ disk \in {NoFile, Garbage}
    /\ cmd = "none"
    /\ pc = "idle"
    /\ arg = "-"
    /\ db = NoDb
    /\ call = "-"
    /\ result = "-"
    /\ clock = 0
    /\ opts = NoOpts
    /\ pool = {}
    /\ cur = NoCur
    /\ todo = {}
    /\ stopped = "-"
    /\ batch = {}
    /\ db0 = EmptyMap
    /\ nsend = 0
    /\ sessOk = {}
    /\ sessFail = {}
    /\ ncommit = 0
    /\ lost = {}
    /\ createOks = 0
    /\ added = {}
    /\ watched = "never"
    /\ listed = << >>
    /\ concurrent = {}
    /\ FetcherIdle
    /\ CodecIdle

(***************************************************************************)
(* main_impl: a new process starts a subcommand.                           *)
(***************************************************************************)
\* FetchAndSendOptions as the fetch subcommand builds them (main.rs 120-124):
\* FEED_URL absent leaves feed_urls None, otherwise it is the set named.
CliOptions ==
    {[some |-> FALSE, feed_urls |-> {}, no_send |-> ns] : ns \in BOOLEAN}
    \cup {[some |-> TRUE, feed_urls |-> s, no_send |-> ns] :
             s \in (SUBSET Urls) \ {{}}, ns \in BOOLEAN}

StartCreate ==
    /\ cmd = "none"
    /\ cmd' = "create"
    /\ pc' = "create"
    /\ call' = "-"
    /\ result' = "-"
    /\ UNCHANGED <<arg, db, clock, ncommit, listed>>
    /\ UNCHANGED <<fileVars, sessVars, histVars>>
    /\ UNCHANGED concurrent
    /\ UNCHANGED <<fetcherVars, codecVars>>

StartAddRemove ==
    /\ cmd = "none"
    /\ \E c \in {"add", "remove"}, u \in Urls :
          /\ cmd' = c
          /\ arg' = u
    /\ pc' = "open"
    /\ call' = "-"
    /\ result' = "-"
    /\ UNCHANGED <<db, clock, ncommit, listed>>
    /\ UNCHANGED <<fileVars, sessVars, histVars>>
    /\ UNCHANGED concurrent
    /\ UNCHANGED <<fetcherVars, codecVars>>

StartList ==
    /\ cmd = "none"
    /\ cmd' = "list"
    /\ pc' = "open"
    /\ call' = "-"
    /\ result' = "-"
    /\ UNCHANGED <<arg, db, clock, ncommit, listed>>
    /\ UNCHANGED <<fileVars, sessVars, histVars>>
    /\ UNCHANGED concurrent
    /\ UNCHANGED <<fetcherVars, codecVars>>

StartFetch ==
    /\ cmd = "none"
    /\ clock < MaxSessions
    /\ cmd' = "fetch"
    /\ pc' = "open"
    /\ call' = "-"
    /\ result' = "-"
    /\ UNCHANGED <<arg, db, clock, ncommit, listed>>
    /\ UNCHANGED <<fileVars, sessVars, histVars>>
    /\ UNCHANGED concurrent
    /\ UNCHANGED <<fetcherVars, codecVars>>

\* main: the process ends, with exit status 1 when main_impl returned Err.
Exit ==
    /\ pc = "exit"
    /\ cmd' = "none"
    /\ pc' = "idle"
    /\ arg' = "-"
    /\ db' = NoDb
    /\ call' = "-"
    /\ result' = "-"
    /\ opts' = NoOpts
    /\ pool' = {}
    /\ cur' = NoCur
    /\ todo' = {}
    /\ stopped' = "-"
    /\ batch' = {}
    /\ db0' = EmptyMap
    /\ nsend' = 0
    /\ sessOk' = {}
    /\ sessFail' = {}
    /\ ncommit' = 0
    /\ listed' = << >>
    /\ UNCHANGED <<clock>>
    /\ UNCHANGED <<fileVars, histVars>>
    /\ concurrent' = {}
    /\ UNCHANGED <<fetcherVars, codecVars>>

(***************************************************************************)
(* Faulty variants of the program's functions.  Each theorem below is      *)
(* checked to fail when the function it depends on is replaced by its      *)
(* faulty variant.                                                         *)
(***************************************************************************)
\* create that overwrites: Ok whatever is at the path.
CreateOverwrites(md) == IF md = "ioerr" THEN "err_metadata" ELSE "ok"

(***************************************************************************)
(* Database::create (model.rs 24-44).  md is what std::fs::metadata        *)
(* returns: NotFound only when nothing is at the path.                     *)
(***************************************************************************)
MetadataOutcomes(file) ==
    IF file.kind = "nofile" THEN {"notfound", "ioerr"} ELSE {"found", "ioerr"}

CreateResult(md) ==
    CASE md = "notfound" -> "ok"
      [] md = "ioerr"    -> "err_metadata"
      [] md = "found"    -> "err_exists"

Create ==
    /\ cmd = "create" /\ pc = "create"
    /\ \E md \in MetadataOutcomes(disk) :
          /\ call' = "create"
          /\ result' = CreateResult(md)
          /\ IF CreateResult(md) = "ok"
                THEN /\ db' = Db(EmptyMap)
                     /\ pc' = "commit"
                     /\ createOks' = IF createOks < 2 THEN createOks + 1 ELSE createOks
                ELSE /\ db' = db
                     /\ pc' = "exit"
                     /\ createOks' = createOks
    /\ UNCHANGED <<cmd, arg, clock, ncommit, listed>>
    /\ UNCHANGED <<lost, added, watched>>
    /\ UNCHANGED <<fileVars, sessVars>>
    /\ UNCHANGED concurrent
    /\ UNCHANGED <<fetcherVars, codecVars>>

(***************************************************************************)
(* Database::open (model.rs 46-66).  File::open fails when nothing is at   *)
(* the path or on an I/O error; serde_json::from_reader fails on a file    *)
(* that is no JSON document of the feeds, or on a read error.              *)
(***************************************************************************)
OpenOutcomes(file) ==
    CASE file.kind = "nofile"  -> {"err_open"}
      [] file.kind = "garbage" -> {"err_open", "err_corrupt"}
      [] file.kind = "db"      -> {"ok", "err_open", "err_corrupt"}

\* Where main_impl goes after a successful open.
AfterOpen(c) ==
    CASE c = "add"    -> "add"
      [] c = "remove" -> "remove"
      [] c = "list"   -> "list"
      [] c = "fetch"  -> "session"

Open ==
    /\ cmd \in {"add", "remove", "list", "fetch"} /\ pc = "open"
    /\ \E o \in OpenOutcomes(disk) :
          /\ call' = "open"
          /\ result' = o
          /\ IF o = "ok"
                THEN /\ db' = Db(FromJson(disk.json))
                     /\ pc' = AfterOpen(cmd)
                ELSE /\ db' = db
                     /\ pc' = "exit"
    /\ UNCHANGED <<cmd, arg, clock, ncommit, listed>>
    /\ UNCHANGED <<fileVars, sessVars, histVars>>
    /\ UNCHANGED concurrent
    /\ UNCHANGED <<fetcherVars, codecVars>>

(***************************************************************************)
(* Database::commit (model.rs 68-123): write the feeds to the working      *)
(* file, sync it, rename it over the database.  f is the step that fails   *)
(* ("none": no step fails).  The working file is written and never read:   *)
(* only the rename changes the file at DB_PATH.                            *)
(***************************************************************************)
CommitSteps == {"create", "write", "newline", "sync", "rename", "none"}

CommitResult(f) == IF f = "none" THEN "ok" ELSE "err_commit"

\* The steps of commit in the order of the code.
CommitOrder == <<"create", "write", "newline", "sync", "rename">>

\* The position of step f in CommitOrder ("none" comes after the last).
StepPos(f) ==
    IF f = "none" THEN Len(CommitOrder) + 1
                  ELSE CHOOSE k \in DOMAIN CommitOrder : CommitOrder[k] = f

\* The two files commit works on: fs.db at self.path and fs.working at
\* working_path, which is self.path with the extension "working".
Files(dbfile, workingfile) == [db |-> dbfile, working |-> workingfile]

\* Faulty: working_path is self.path, the database is written in place.
StepDoneInPlace(step, fs, new) ==
    CASE step = "create"  -> [fs EXCEPT !.db = Garbage]
      [] step = "write"   -> [fs EXCEPT !.db = new]
      [] step = "newline" -> fs
      [] step = "sync"    -> fs
      [] step = "rename"  -> fs

\* The files after step has succeeded, new being the document of self.feeds:
\* File::create truncates the working file, to_writer writes the document into
\* it, rename puts it at self.path.
StepDone(step, fs, new) ==
    CASE step = "create"  -> [fs EXCEPT !.working = Garbage]
      [] step = "write"   -> [fs EXCEPT !.working = new]
      [] step = "newline" -> fs
      [] step = "sync"    -> fs
      [] step = "rename"  -> [db |-> fs.working, working |-> NoFile]

\* The files after step has failed: a failed write leaves a part of the
\* document in the working file, every other failed step leaves the files alone.
StepFailed(step, fs) ==
    IF step = "write" THEN [fs EXCEPT !.working = Garbage] ELSE fs

\* The files after the first k steps of commit have succeeded.
RECURSIVE AfterSteps(_, _, _)
AfterSteps(k, fs, new) ==
    IF k = 0 THEN fs
             ELSE StepDone(CommitOrder[k], AfterSteps(k - 1, fs, new), new)

\* The files when commit returns, step f having failed.
CommitEnd(f, fs, new) ==
    IF f = "none"
        THEN AfterSteps(Len(CommitOrder), fs, new)
        ELSE StepFailed(f, AfterSteps(StepPos(f) - 1, fs, new))

\* The files at every point of a commit whose step f fails: before its first
\* step, between two steps, and when it returns.
CommitPoints(f, fs, new) ==
    {AfterSteps(k, fs, new) : k \in 0..(StepPos(f) - 1)}
        \cup {CommitEnd(f, fs, new)}

\* What may be at working_path when a commit begins: nothing, or the file a
\* failed commit left.
WorkingFiles == {NoFile, Garbage, DbFile(EmptyMap)}

\* The database file after a commit of feeds whose step f failed.
DiskAfter(f, feeds, old) == CommitEnd(f, Files(old, NoFile), DbFile(ToJson(feeds))).db

\* The (feed URL, item id) pairs recorded in feeds.
PairsIn(feeds) == {p \in Pairs : p[1] \in DOMAIN feeds /\ p[2] \in DOMAIN feeds[p[1]].items}

\* The pairs of feed u.
PairsOf(u) == {p \in Pairs : p[1] = u}

\* lost after command c committed with failing step f: sess are the pairs the
\* session handed to the Sender, file is the database file after the commit.
LostAfter(f, c, u, old, sess, file) ==
    ((IF c = "fetch" THEN old \cup sess ELSE old) \ PairsIn(file.json))
        \ (IF c = "remove" /\ f = "none" THEN PairsOf(u) ELSE {})

\* watched after command c with FEED_URL u committed with failing step f: sess
\* are the pairs the session handed to the Sender.
WatchedAfter(f, c, u, old, sess) ==
    CASE c = "fetch" /\ Watched \in sess                            -> "sent"
      [] c = "remove" /\ f = "none" /\ u = Watched[1] /\ old # "never" -> "forgotten"
      [] OTHER                                                      -> old

\* added after command c with FEED_URL u committed with failing step f.
AddedAfter(f, c, u, old) ==
    CASE f = "none" /\ c = "add"    -> old \cup {u}
      [] f = "none" /\ c = "remove" -> old \ {u}
      [] OTHER                      -> old

Commit ==
    /\ cmd \in {"create", "add", "remove", "fetch"} /\ pc = "commit"
    /\ \E f \in CommitSteps :
          /\ call' = "commit"
          /\ added' = AddedAfter(f, cmd, arg, added)
          /\ watched' = WatchedAfter(f, cmd, arg, watched, sessOk \cup sessFail)
          /\ result' = CommitResult(f)
          /\ disk' = DiskAfter(f, db.feeds, disk)
          /\ lost' = LostAfter(f, cmd, arg, lost, sessOk \cup sessFail,
                             DiskAfter(f, db.feeds, disk))
    /\ ncommit' = ncommit + 1
    /\ pc' = "exit"
    /\ UNCHANGED <<cmd, arg, db, clock, createOks, listed>>
    /\ UNCHANGED sessVars
    /\ UNCHANGED concurrent
    /\ UNCHANGED <<fetcherVars, codecVars>>

(***************************************************************************)
(* Database::add_feed (model.rs 125-139)                                   *)
(***************************************************************************)
\* Faulty: adding a feed that exists succeeds.
AddFeedAlwaysOk(feeds, u) == "ok"

AddFeedResult(feeds, u) == IF u \in DOMAIN feeds THEN "err_feed_exists" ELSE "ok"

\* Faulty: the feed is inserted even when the URL has one.
AddFeedOverwrites(feeds, u) == Put(feeds, u, NewFeed)

\* Faulty: nothing is inserted.
AddFeedNothing(feeds, u) == feeds

\* self.feeds after add_feed(u)
AddFeedFeeds(feeds, u) == IF u \in DOMAIN feeds THEN feeds ELSE Put(feeds, u, NewFeed)

AddFeed ==
    /\ cmd = "add" /\ pc = "add"
    /\ call' = "add_feed"
    /\ result' = AddFeedResult(db.feeds, arg)
    /\ db' = Db(AddFeedFeeds(db.feeds, arg))
    /\ pc' = IF AddFeedResult(db.feeds, arg) = "ok" THEN "commit" ELSE "exit"
    /\ UNCHANGED <<cmd, arg, clock, ncommit, listed>>
    /\ UNCHANGED <<fileVars, sessVars, histVars>>
    /\ UNCHANGED concurrent
    /\ UNCHANGED <<fetcherVars, codecVars>>

(***************************************************************************)
(* Database::remove_feed (model.rs 141-151)                                *)
(***************************************************************************)
\* Faulty: removing a feed that does not exist succeeds.
RemoveFeedAlwaysOk(feeds, u) == "ok"

RemoveFeedResult(feeds, u) == IF u \in DOMAIN feeds THEN "ok" ELSE "err_no_feed"

\* Faulty: the feed is not removed.
RemoveNoFeed(feeds, u) == feeds

\* Faulty: every feed is removed.
RemoveEveryFeed(feeds, u) == EmptyMap

\* self.feeds after remove_feed(u)
RemoveFeedFeeds(feeds, u) == Del(feeds, u)

RemoveFeed ==
    /\ cmd = "remove" /\ pc = "remove"
    /\ call' = "remove_feed"
    /\ result' = RemoveFeedResult(db.feeds, arg)
    /\ db' = Db(RemoveFeedFeeds(db.feeds, arg))
    /\ pc' = IF RemoveFeedResult(db.feeds, arg) = "ok" THEN "commit" ELSE "exit"
    /\ UNCHANGED <<cmd, arg, clock, ncommit, listed>>
    /\ UNCHANGED <<fileVars, sessVars, histVars>>
    /\ UNCHANGED concurrent
    /\ UNCHANGED <<fetcherVars, codecVars>>

(***************************************************************************)
(* Database::feed_urls (model.rs 153-155) as the list subcommand prints it *)
(* (main.rs 127-133): the keys of the HashMap, in the map's own order.     *)
(***************************************************************************)
\* The sequences that hold every element of s exactly once.
Orderings(s) ==
    {q \in [1..Cardinality(s) -> s] : \A x \in s : \E k \in DOMAIN q : q[k] = x}

\* Faulty: every URL is yielded, a feed of the store or not.
FeedUrlsOfAll(feeds) == Orderings(Urls)

FeedUrls(feeds) == Orderings(DOMAIN feeds)

List ==
    /\ cmd = "list" /\ pc = "list"
    /\ \E q \in FeedUrls(db.feeds) : listed' = q
    /\ call' = "feed_urls"
    /\ result' = "ok"
    /\ pc' = "exit"
    /\ UNCHANGED <<cmd, arg, db, clock, ncommit>>
    /\ UNCHANGED <<fileVars, sessVars, histVars>>
    /\ UNCHANGED concurrent
    /\ UNCHANGED <<fetcherVars, codecVars>>

(***************************************************************************)
(* Database::fetch_and_send_feeds (model.rs 157-239), one step at a time.  *)
(*                                                                         *)
(* The Fetcher is NetFetcher seen from the consumer: every URL of the      *)
(* batch is taken by one worker, which pushes Err on a transport failure,  *)
(* pushes nothing when the body does not parse, and pushes Ok((url, feed)) *)
(* otherwise (model.rs 459-490); the results arrive in any order.          *)
(***************************************************************************)
\* Faulty: the URL set of the options is ignored.
ShouldFetchAll(o, u) == TRUE

\* FetchAndSendOptions::should_fetch (model.rs 393-398)
ShouldFetch(o, u) == IF o.some THEN u \in o.feed_urls ELSE TRUE

\* Faulty: the URLs asked for are fetched, feeds of the store or not.
FeedsAskedFor(feeds, o) == IF o.some THEN o.feed_urls ELSE DOMAIN feeds

\* feeds_to_fetch (model.rs 178-182)
FeedsToFetch(feeds, o) == {u \in DOMAIN feeds : ShouldFetch(o, u)}

\* item_ids (model.rs 168-170)
ItemIdsOf(feed) == DOMAIN feed.items

\* Faulty: every item of the fetched feed counts as new.
AllItemIds(new_feed, old_feed) == ItemIdsOf(new_feed)

\* Faulty: no item of the fetched feed counts as new.
NoItemIds(new_feed, old_feed) == {}

\* new_item_ids.difference(&old_item_ids) (model.rs 204)
NewItemIds(new_feed, old_feed) == ItemIdsOf(new_feed) \ ItemIdsOf(old_feed)

\* The title of old_feed after a fetch of new_feed (model.rs 200-202)
UpdatedTitle(old_feed, new_feed) ==
    IF old_feed.title # new_feed.title /\ new_feed.title # None
        THEN new_feed.title
        ELSE old_feed.title

\* Faulty: the item is not inserted.
InsertNothing(feeds, u, i, item) == feeds

\* old_feed.items.insert(item_id.clone(), item) (model.rs 234)
InsertItem(feeds, u, i, item) ==
    [feeds EXCEPT ![u].items = Put(feeds[u].items, i, item)]

\* Faulty: the item is inserted whatever sender.send returned.
InsertWhateverSent(feeds, u, i, item, r) ==
    [feeds EXCEPT ![u].items = Put(feeds[u].items, i, item)]

\* self.feeds after sender.send returned r for the new item i of u
\* (model.rs 219-234): the item is inserted unless the send failed.
AfterSend(feeds, u, i, item, r) ==
    IF r = "ok" THEN InsertItem(feeds, u, i, item) ELSE feeds

\* Faulty: with no_send set the insertion is skipped together with the send.
SkipWhenNoSend(feeds, u, i, item) == feeds

\* self.feeds after one turn of the item loop with no_send set: the guard
\* `if !options.no_send` skips the send only, the insertion follows it
\* (model.rs 218, 234).
AfterNoSend(feeds, u, i, item) == InsertItem(feeds, u, i, item)

\* Faulty: a failed send leaves the item loop running.
ContinueAfterSendError == "items"

\* Faulty: a failed send makes the command fail before its commit.
FailOnSendError == "exit"

\* Faulty: a stream error leaves the feed loop running.
ContinueAfterFetchError == "poll"

\* Where the session goes when sender.send fails: break 'outer (model.rs 230)
PcAfterSendError == "commit"

\* Where the session goes when the stream yields Err: break (model.rs 188-191)
PcAfterFetchError == "commit"

\* The options are built (main.rs 120-124) and fetcher.fetch is called
\* (model.rs 178-184)
BeginSession ==
    /\ cmd = "fetch" /\ pc = "session"
    /\ clock' = clock + 1
    /\ \E o \in CliOptions :
          /\ opts' = o
          /\ batch' = FeedsToFetch(db.feeds, o)
          /\ pool' = FeedsToFetch(db.feeds, o)
    /\ db0' = db.feeds
    /\ pc' = "poll"
    /\ UNCHANGED <<cmd, arg, db, call, result, ncommit, listed>>
    /\ UNCHANGED <<cur, todo, stopped, nsend, sessOk, sessFail>>
    /\ UNCHANGED <<fileVars, histVars>>
    /\ UNCHANGED concurrent
    /\ UNCHANGED <<fetcherVars, codecVars>>

\* wait_stream returns None: every worker has exited (model.rs 185, 238)
EndOfStream ==
    /\ cmd = "fetch" /\ pc = "poll"
    /\ pool = {}
    /\ stopped' = "eos"
    /\ call' = "fetch_and_send_feeds"
    /\ result' = "ok"
    /\ pc' = "commit"
    /\ UNCHANGED <<cmd, arg, db, clock, ncommit, listed>>
    /\ UNCHANGED <<opts, pool, cur, todo, batch, db0, nsend, sessOk, sessFail>>
    /\ UNCHANGED <<fileVars, histVars>>
    /\ UNCHANGED concurrent
    /\ UNCHANGED <<fetcherVars, codecVars>>

\* wait_stream returns Err: a worker could not fetch u (model.rs 187-191, 467-473)
FetchError ==
    /\ cmd = "fetch" /\ pc = "poll"
    /\ \E u \in pool : pool' = pool \ {u}
    /\ stopped' = "fetcherr"
    /\ call' = "fetch_and_send_feeds"
    /\ result' = "ok"
    /\ pc' = PcAfterFetchError
    /\ UNCHANGED <<cmd, arg, db, clock, ncommit, listed>>
    /\ UNCHANGED <<opts, cur, todo, batch, db0, nsend, sessOk, sessFail>>
    /\ UNCHANGED <<fileVars, histVars>>
    /\ UNCHANGED concurrent
    /\ UNCHANGED <<fetcherVars, codecVars>>

\* A worker fetched u and could not parse it: logged, nothing pushed
\* (model.rs 476-480)
ParseFailure ==
    /\ cmd = "fetch" /\ pc = "poll"
    /\ \E u \in pool : pool' = pool \ {u}
    /\ UNCHANGED <<cmd, pc, arg, db, call, result, clock, ncommit, listed>>
    /\ UNCHANGED <<opts, cur, todo, stopped, batch, db0, nsend, sessOk, sessFail>>
    /\ UNCHANGED <<fileVars, histVars>>
    /\ UNCHANGED concurrent
    /\ UNCHANGED <<fetcherVars, codecVars>>

\* wait_stream returns Ok((feed_url, new_feed)) (model.rs 192-204)
FetchOk ==
    /\ cmd = "fetch" /\ pc = "poll"
    /\ \E u \in pool, t \in FeedTitles, ids \in SUBSET ItemIds :
          LET new_feed == ParsedFeed(t, ids, clock)
              old_feed == db.feeds[u]
          IN  /\ pool' = pool \ {u}
              /\ \E order \in Orderings(ids) :
                    cur' = [url |-> u, title |-> new_feed.title,
                            items |-> new_feed.items, emitted |-> order]
              /\ db' = Db([db.feeds EXCEPT ![u].title = UpdatedTitle(old_feed, new_feed)])
              /\ todo' = NewItemIds(new_feed, old_feed)
    /\ pc' = "items"
    /\ UNCHANGED <<cmd, arg, call, result, clock, ncommit, listed>>
    /\ UNCHANGED <<opts, stopped, batch, db0, nsend, sessOk, sessFail>>
    /\ UNCHANGED <<fileVars, histVars>>
    /\ UNCHANGED concurrent
    /\ UNCHANGED <<fetcherVars, codecVars>>

\* One turn of the loop over the new items with no_send set (model.rs 204-235)
RecordUnsent ==
    /\ cmd = "fetch" /\ pc = "items"
    /\ opts.no_send
    /\ \E i \in todo :
          /\ db' = Db(AfterNoSend(db.feeds, cur.url, i, cur.items[i]))
          /\ todo' = todo \ {i}
    /\ UNCHANGED <<cmd, pc, arg, call, result, clock, ncommit, listed>>
    /\ UNCHANGED <<opts, pool, cur, stopped, batch, db0, nsend, sessOk, sessFail>>
    /\ UNCHANGED <<fileVars, histVars>>
    /\ UNCHANGED concurrent
    /\ UNCHANGED <<fetcherVars, codecVars>>

\* One turn of the loop over the new items: sender.send returns r
\* (model.rs 204-235)
SendItem ==
    /\ cmd = "fetch" /\ pc = "items"
    /\ ~opts.no_send
    /\ \E i \in todo, r \in {"ok", "err"} :
          /\ db' = Db(AfterSend(db.feeds, cur.url, i, cur.items[i], r))
          /\ todo' = todo \ {i}
          /\ nsend' = nsend + 1
          /\ IF r = "ok"
                THEN /\ sessOk' = sessOk \cup {<<cur.url, i>>}
                     /\ UNCHANGED <<sessFail, stopped, pc, call, result>>
                ELSE /\ sessFail' = sessFail \cup {<<cur.url, i>>}
                     /\ stopped' = "sendfail"
                     /\ call' = "fetch_and_send_feeds"
                     /\ result' = "ok"
                     /\ pc' = PcAfterSendError
                     /\ UNCHANGED sessOk
    /\ UNCHANGED <<cmd, arg, clock, ncommit, listed>>
    /\ UNCHANGED <<opts, pool, cur, batch, db0>>
    /\ UNCHANGED <<fileVars, histVars>>
    /\ UNCHANGED concurrent
    /\ UNCHANGED <<fetcherVars, codecVars>>

\* The loop over the new items is over: back to wait_stream (model.rs 235-236)
ItemsDone ==
    /\ cmd = "fetch" /\ pc = "items"
    /\ todo = {}
    /\ cur' = NoCur
    /\ pc' = "poll"
    /\ UNCHANGED <<cmd, arg, db, call, result, clock, ncommit, listed>>
    /\ UNCHANGED <<opts, pool, todo, stopped, batch, db0, nsend, sessOk, sessFail>>
    /\ UNCHANGED <<fileVars, histVars>>
    /\ UNCHANGED concurrent
    /\ UNCHANGED <<fetcherVars, codecVars>>

(***************************************************************************)
(* The specification.                                                      *)
(***************************************************************************)
Next ==
    \/ StartCreate
    \/ StartAddRemove
    \/ StartList
    \/ StartFetch
    \/ Create
    \/ Open
    \/ Commit
    \/ AddFeed
    \/ RemoveFeed
    \/ List
    \/ BeginSession
    \/ EndOfStream
    \/ FetchError
    \/ ParseFailure
    \/ FetchOk
    \/ RecordUnsent
    \/ SendItem
    \/ ItemsDone
    \/ Exit

Spec == Init /\ [][Next]_vars

(***************************************************************************)
(* A second process on the same database file.  Nothing in open or commit  *)
(* takes a lock (model.rs 46-123), so while this process holds its         *)
(* Database another one may run the add subcommand (main.rs 102-106) from  *)
(* open to commit.                                                         *)
(***************************************************************************)
\* Another process adds feed u with success: open, add_feed, commit.
OtherAdd ==
    /\ cmd = "fetch" /\ pc \in {"session", "poll", "items", "commit"}
    /\ disk.kind = "db"
    /\ \E u \in Urls \ DOMAIN disk.json :
          /\ disk' = DbFile(ToJson(AddFeedFeeds(FromJson(disk.json), u)))
          /\ concurrent' = concurrent \cup {u}
          /\ added' = added \cup {u}
    /\ UNCHANGED <<cmd, pc, arg, db, call, result, clock, ncommit, listed>>
    /\ UNCHANGED <<lost, createOks, watched>>
    /\ UNCHANGED sessVars
    /\ UNCHANGED <<fetcherVars, codecVars>>

NextShared == Next \/ OtherAdd

SpecShared == Init /\ [][NextShared]_vars

(***************************************************************************)
(* NetFetcher in detail (model.rs 401-547).  fetch wraps the batch in a    *)
(* mutex, opens a bounded channel and spawns NUM_FETCHERS threads running  *)
(* fetch_thread, each with its own clone of the sender; fetch's own sender *)
(* is dropped when fetch returns.  The consumer polls the stream, or drops *)
(* it.  The channel is futures::sync::mpsc::channel(CHANNEL_CAPACITY): a   *)
(* send enqueues unless the sender is parked or the receiver is gone, and  *)
(* parks the sender when the channel then holds more than the buffer; the  *)
(* receiver unparks the longest-parked sender with every result it takes,  *)
(* and reports the end once the queue is empty and every sender dropped.   *)
(***************************************************************************)
\* Result<(String, Feed), String> as pushed by a worker (model.rs 469, 484):
\* the error text names the feed URL (model.rs 444, 451).
ErrMsg(u) == [kind |-> "err", url |-> u]
OkMsg(u) == [kind |-> "ok", url |-> u]

\* The batches handed to fetch: feeds_to_fetch, kept by now as numbers.
Batches == {[i \in 1 .. n |-> i] : n \in 0 .. MaxBatch}

\* The main program stands still while the fetcher is looked at alone.
MainIdle ==
    /\ disk = NoFile
    /\ cmd = "none"
    /\ pc = "idle"
    /\ arg = "-"
    /\ db = NoDb
    /\ call = "-"
    /\ result = "-"
    /\ clock = 0
    /\ opts = NoOpts
    /\ pool = {}
    /\ cur = NoCur
    /\ todo = {}
    /\ stopped = "-"
    /\ batch = {}
    /\ db0 = EmptyMap
    /\ nsend = 0
    /\ sessOk = {}
    /\ sessFail = {}
    /\ ncommit = 0
    /\ lost = {}
    /\ createOks = 0
    /\ added = {}
    /\ watched = "never"
    /\ listed = << >>
    /\ concurrent = {}

\* NetFetcher::fetch has returned (model.rs 496-527): the batch is shared,
\* the channel is open and empty, every thread is about to pop.
InitFetcher ==
    /\ MainIdle
    /\ fetched \in Batches
    /\ feed_urls = fetched
    /\ thread = [w \in Workers |-> "pop"]
    /\ feed_url = [w \in Workers |-> 0]
    /\ outcome = [w \in Workers |-> "-"]
    /\ pending = [w \in Workers |-> NoMsg]
    /\ chan = << >>
    /\ parked = << >>
    /\ recv_chan = "open"
    /\ delivered = [u \in BatchUrls |-> 0]
    /\ pushed = [u \in BatchUrls |-> 0]
    /\ taken = [u \in BatchUrls |-> 0]
    /\ woken = {}
    /\ CodecIdle

\* Faulty: the URL is read and left in the pool.
VecPeek(v) == [top |-> v[Len(v)], rest |-> v]

\* Vec::pop on a non-empty vector (model.rs 460)
VecPop(v) == [top |-> v[Len(v)], rest |-> SubSeq(v, 1, Len(v) - 1)]

\* feed_urls.lock().unwrap().pop() (model.rs 460-463): None ends the thread.
Pop(w) ==
    /\ thread[w] = "pop"
    /\ IF feed_urls = << >>
          THEN /\ thread' = [thread EXCEPT ![w] = "done"]
               /\ UNCHANGED <<feed_urls, feed_url, taken>>
          ELSE LET r == VecPop(feed_urls)
               IN  /\ feed_urls' = r.rest
                   /\ feed_url' = [feed_url EXCEPT ![w] = r.top]
                   /\ taken' = [taken EXCEPT ![r.top] = @ + 1]
                   /\ thread' = [thread EXCEPT ![w] = "fetch"]
    /\ UNCHANGED <<outcome, pending, chan, parked, recv_chan, delivered, pushed,
                   fetched, woken>>
    /\ UNCHANGED <<mainVars, codecVars>>

\* Faulty: a body that does not parse is pushed as an error.
PushParseError(u) == [pc |-> "push", msg |-> ErrMsg(u)]

\* parse_syndication failed: logged, `continue` (model.rs 476-480)
AfterParseFailure(u) == [pc |-> "pop", msg |-> NoMsg]

\* What the worker does once fetch_it returned for u (model.rs 467-488):
\* o is "err" (the request or the read failed), "badbody" (a body that
\* does not parse) or "ok".
AfterFetch(o, u) ==
    CASE o = "err" -> [pc |-> "push", msg |-> ErrMsg(u)]
      [] o = "badbody" -> AfterParseFailure(u)
      [] o = "ok" -> [pc |-> "push", msg |-> OkMsg(u)]

FetchOutcomes == {"err", "badbody", "ok"}

\* fetch_it returns (model.rs 467): the network call is over.
FetchIt(w) ==
    /\ thread[w] = "fetch"
    /\ \E o \in FetchOutcomes :
          LET a == AfterFetch(o, feed_url[w])
          IN  /\ thread' = [thread EXCEPT ![w] = a.pc]
              /\ pending' = [pending EXCEPT ![w] = a.msg]
              /\ outcome' = [outcome EXCEPT ![w] = IF a.pc = "pop" THEN "-" ELSE o]
              /\ feed_url' = [feed_url EXCEPT ![w] = IF a.pc = "pop" THEN 0 ELSE @]
    /\ UNCHANGED <<feed_urls, chan, parked, recv_chan, delivered, pushed, taken,
                   fetched, woken>>
    /\ UNCHANGED <<mainVars, codecVars>>

\* Is w parked?
IsParked(w, q) == \E i \in 1 .. Len(q) : q[i] = w

\* send_chan.lock().unwrap().send(..) (model.rs 469-472, 484-487): a parked
\* sender waits until the receiver wakes it; then Err when the receiver is
\* gone, and the thread returns; otherwise the result is enqueued and the
\* loop goes on.
Push(w) ==
    /\ thread[w] = "push"
    /\ ~IsParked(w, parked)
    /\ IF recv_chan = "dropped"
          THEN /\ thread' = [thread EXCEPT ![w] = "done"]
               /\ UNCHANGED <<chan, parked, pushed>>
          ELSE /\ chan' = Append(chan, pending[w])
               /\ pushed' = [pushed EXCEPT ![pending[w].url] = @ + 1]
               /\ parked' = IF Len(chan) + 1 > CHANNEL_CAPACITY
                               THEN Append(parked, w)
                               ELSE parked
               /\ thread' = [thread EXCEPT ![w] = "pop"]
    /\ pending' = [pending EXCEPT ![w] = NoMsg]
    /\ feed_url' = [feed_url EXCEPT ![w] = 0]
    /\ outcome' = [outcome EXCEPT ![w] = "-"]
    /\ UNCHANGED <<feed_urls, recv_chan, delivered, taken, fetched, woken>>
    /\ UNCHANGED <<mainVars, codecVars>>

\* The receiver wakes the longest-parked sender when it takes a result.
UnparkOne(q) == IF q = << >> THEN q ELSE Tail(q)

\* NetFetcherStream::poll with a result in the channel (model.rs 540-545):
\* Ready(Some(Ok(x))) becomes an item of the stream, Ready(Some(Err(e))) its
\* error.
PollItem ==
    /\ recv_chan = "open"
    /\ chan # << >>
    /\ delivered' = [delivered EXCEPT ![Head(chan).url] = @ + 1]
    /\ chan' = Tail(chan)
    /\ parked' = UnparkOne(parked)
    /\ UNCHANGED <<feed_urls, thread, feed_url, outcome, pending, recv_chan, pushed, taken,
                   fetched, woken>>
    /\ UNCHANGED <<mainVars, codecVars>>

\* Faulty: the stream keeps fetch's own sender.
SendersAndFetchHandle(t) == {w \in Workers : t[w] # "done"} \cup {0}

\* The senders alive: one per thread that has not returned; fetch's own
\* send_chan is dropped when fetch returns (model.rs 502-527).
Senders(t) == {w \in Workers : t[w] # "done"}

\* Faulty: the end is reported as soon as the senders are gone.
EndWhenSendersGone(ch, t) == Senders(t) = {}

\* recv_chan.poll() is Ready(None): nothing queued and no sender left.
StreamEnded(ch, t) == ch = << >> /\ Senders(t) = {}

\* NetFetcherStream::poll returns Ready(None) (model.rs 542)
PollEnd ==
    /\ recv_chan = "open"
    /\ StreamEnded(chan, thread)
    /\ recv_chan' = "eos"
    /\ UNCHANGED <<feed_urls, thread, feed_url, outcome, pending, chan, parked, delivered,
                   pushed, taken, fetched, woken>>
    /\ UNCHANGED <<mainVars, codecVars>>

\* Faulty: the closing receiver wakes no sender.
CloseWakesNobody(q) == q

\* The closing receiver wakes every parked sender.
UnparkAll(q) == << >>

\* The consumer drops the stream before its end, as fetch_and_send_feeds
\* does when it breaks out of its loop (model.rs 187-191, 230): the receiver
\* closes, wakes every parked sender and discards what is queued.
DropStream ==
    /\ recv_chan = "open"
    /\ recv_chan' = "dropped"
    /\ chan' = << >>
    /\ parked' = UnparkAll(parked)
    /\ woken' = {w \in Workers : thread[w] = "push" /\ IsParked(w, parked)}
    /\ UNCHANGED <<feed_urls, thread, feed_url, outcome, pending, delivered, pushed, taken,
                   fetched>>
    /\ UNCHANGED <<mainVars, codecVars>>

NextFetcher ==
    \/ \E w \in Workers : Pop(w)
    \/ \E w \in Workers : FetchIt(w)
    \/ \E w \in Workers : Push(w)
    \/ PollItem
    \/ PollEnd
    \/ DropStream

SpecFetcher == InitFetcher /\ [][NextFetcher]_vars

\* The consumer keeps polling: the stream is never dropped.
NextPolled ==
    \/ \E w \in Workers : Pop(w)
    \/ \E w \in Workers : FetchIt(w)
    \/ \E w \in Workers : Push(w)
    \/ PollItem
    \/ PollEnd

\* Every thread runs (the operating system schedules it), every network
\* call returns (FETCH_TIMEOUT_SECS, model.rs 415), and the consumer polls.
FairFetcher ==
    /\ \A w \in Workers : WF_vars(Pop(w) \/ FetchIt(w) \/ Push(w))
    /\ WF_vars(PollItem)
    /\ WF_vars(PollEnd)

SpecPolled == InitFetcher /\ [][NextPolled]_vars /\ FairFetcher

\* Every thread runs and every network call returns; the consumer may stop
\* polling and drop the stream at any time.
FairWorkers == \A w \in Workers : WF_vars(Pop(w) \/ FetchIt(w) \/ Push(w))

SpecStopped == InitFetcher /\ [][NextFetcher]_vars /\ FairWorkers

(***************************************************************************)
(* The codec of key_value.rs: keys are a big-endian u32 kind, for an item  *)
(* key the big-endian u32 feed id, then a string to the end of the buffer; *)
(* values go through rmp_serde (MessagePack).  Numbers stay below 2^31.    *)
(***************************************************************************)
\* What a Reader method returns: the value read and the cursor after it.
ReadErr == [ok |-> FALSE, val |-> 0, rest |-> << >>]
ReadOk(v, r) == [ok |-> TRUE, val |-> v, rest |-> r]

\* Faulty: leading zero bytes are not written.
WriteU32Short(n) ==
    IF n < 256 THEN <<n>>
    ELSE IF n < 65536 THEN <<n \div 256, n % 256>>
    ELSE IF n < 16777216 THEN <<n \div 65536, (n \div 256) % 256, n % 256>>
    ELSE <<n \div 16777216, (n \div 65536) % 256, (n \div 256) % 256, n % 256>>

\* Faulty: the four bytes are written least significant first.
WriteU32LittleEndian(n) ==
    <<n % 256, (n \div 256) % 256, (n \div 65536) % 256, n \div 16777216>>

\* Writer::write_u32 (key_value.rs 49-52): four bytes, BigEndian
WriteU32(n) ==
    <<n \div 16777216, (n \div 65536) % 256, (n \div 256) % 256, n % 256>>

\* Faulty: the four bytes are read least significant first.
ReadU32LittleEndian(b) ==
    IF Len(b) < 4
        THEN ReadErr
        ELSE ReadOk(((b[4] * 256 + b[3]) * 256 + b[2]) * 256 + b[1],
                    SubSeq(b, 5, Len(b)))

\* Reader::read_u32 (key_value.rs 17-19): fails on fewer than four bytes
ReadU32(b) ==
    IF Len(b) < 4
        THEN ReadErr
        ELSE ReadOk(((b[1] * 256 + b[2]) * 256 + b[3]) * 256 + b[4],
                    SubSeq(b, 5, Len(b)))

\* Writer::write_key_kind, Reader::read_key_kind (key_value.rs 21-24, 54-57)
WriteKeyKind(k) == WriteU32(k)
ReadKeyKind(b) == ReadU32(b)

\* Faulty: the kind after FEED is taken two further on.
IncrementByTwo(k) == k + 2

\* KeyKind::increment (key_value.rs 82-84)
KeyKindIncrement(k) == k + 1

\* KeyKind::to_bytes (key_value.rs 86-93)
KeyKindToBytes(k) == WriteKeyKind(k)

\* FeedKey::min_search, FeedKey::max_search (key_value.rs 136-142)
MinSearch == KeyKindToBytes(KEY_KIND_FEED)
MaxSearch == KeyKindToBytes(KeyKindIncrement(KEY_KIND_FEED))

\* The UTF-8 bytes of one character.
Utf8Char(c) ==
    IF c < 128 THEN <<c>>
    ELSE IF c < 2048 THEN <<192 + (c \div 64), 128 + (c % 64)>>
    ELSE IF c < 65536
        THEN <<224 + (c \div 4096), 128 + ((c \div 64) % 64), 128 + (c % 64)>>
    ELSE <<240 + (c \div 262144), 128 + ((c \div 4096) % 64),
           128 + ((c \div 64) % 64), 128 + (c % 64)>>

RECURSIVE AsBytes(_)
\* str::as_bytes
AsBytes(str) ==
    IF str = << >> THEN << >> ELSE Utf8Char(Head(str)) \o AsBytes(Tail(str))

\* Writer::write_str_eof (key_value.rs 59-63)
WriteStrEof(str) == AsBytes(str)

\* Is byte x a UTF-8 continuation byte?
IsCont(x) == x >= 128 /\ x <= 191

\* The first character of b and the number of bytes it takes: size 0 when b
\* does not start with a well-formed UTF-8 sequence.
FirstChar(b) ==
    LET n == Len(b)
        b1 == b[1]
    IN  IF b1 < 128 THEN [size |-> 1, char |-> b1]
        ELSE IF b1 >= 194 /\ b1 <= 223 /\ n >= 2 /\ IsCont(b[2])
            THEN [size |-> 2, char |-> (b1 - 192) * 64 + (b[2] - 128)]
        ELSE IF b1 >= 224 /\ b1 <= 239 /\ n >= 3 /\ IsCont(b[2]) /\ IsCont(b[3])
            THEN LET c == ((b1 - 224) * 64 + (b[2] - 128)) * 64 + (b[3] - 128)
                 IN  IF c >= 2048 /\ ~(c >= 55296 /\ c <= 57343)
                         THEN [size |-> 3, char |-> c]
                         ELSE [size |-> 0, char |-> 0]
        ELSE IF b1 >= 240 /\ b1 <= 244 /\ n >= 4
                /\ IsCont(b[2]) /\ IsCont(b[3]) /\ IsCont(b[4])
            THEN LET c == (((b1 - 240) * 64 + (b[2] - 128)) * 64 + (b[3] - 128)) * 64
                           + (b[4] - 128)
                 IN  IF c >= 65536 /\ c <= 1114111
                         THEN [size |-> 4, char |-> c]
                         ELSE [size |-> 0, char |-> 0]
        ELSE [size |-> 0, char |-> 0]

RECURSIVE FromUtf8(_)
\* std::str::from_utf8
FromUtf8(b) ==
    IF b = << >>
        THEN [ok |-> TRUE, str |-> << >>]
        ELSE LET f == FirstChar(b)
             IN  IF f.size = 0
                     THEN [ok |-> FALSE, str |-> << >>]
                     ELSE LET r == FromUtf8(SubSeq(b, f.size + 1, Len(b)))
                          IN  [ok |-> r.ok,
                               str |-> IF r.ok THEN <<f.char>> \o r.str ELSE << >>]

\* Reader::read_str_eof (key_value.rs 26-31)
ReadStrEof(b) == FromUtf8(b)

\* FeedSearch::to_bytes (key_value.rs 179-191): feed_url is Some when has_url
FeedSearchToBytes(has_url, url) ==
    WriteKeyKind(KEY_KIND_FEED) \o (IF has_url THEN WriteStrEof(url) ELSE << >>)

\* FeedKey::to_bytes (key_value.rs 161-167)
FeedKeyToBytes(k) == Bytes(FeedSearchToBytes(TRUE, k.feed_url))

\* Faulty: the kind is read and not compared.
FeedKeyFromBytesOfAnyKind(b) ==
    LET key_kind == ReadKeyKind(b)
    IN  IF ~key_kind.ok THEN DecodeErr
        ELSE LET url == ReadStrEof(key_kind.rest)
             IN  IF ~url.ok THEN DecodeErr ELSE DecodeOk(FeedKey(url.str))

\* FeedKey::from_bytes (key_value.rs 144-159)
FeedKeyFromBytes(b) ==
    LET key_kind == ReadKeyKind(b)
    IN  IF ~key_kind.ok THEN DecodeErr
        ELSE IF key_kind.val # KEY_KIND_FEED THEN DecodeErr
        ELSE LET url == ReadStrEof(key_kind.rest)
             IN  IF ~url.ok THEN DecodeErr ELSE DecodeOk(FeedKey(url.str))

\* ItemSearch::to_bytes (key_value.rs 303-318): feed_id is Some when has_id,
\* item_id is Some when has_item
ItemSearchToBytes(has_id, id, has_item, item) ==
    WriteKeyKind(KEY_KIND_ITEM)
        \o (IF has_id
               THEN WriteU32(id) \o (IF has_item THEN WriteStrEof(item) ELSE << >>)
               ELSE << >>)

\* ItemKey::to_bytes (key_value.rs 283-290)
ItemKeyToBytes(k) == Bytes(ItemSearchToBytes(TRUE, k.feed_id, TRUE, k.item_id))

\* ItemKey::new_search().with_feed_id(id).to_bytes() (key_value.rs 293-301)
WithFeedId(id) == ItemSearchToBytes(TRUE, id, FALSE, << >>)

\* ItemKey::from_bytes (key_value.rs 262-281)
ItemKeyFromBytes(b) ==
    LET key_kind == ReadKeyKind(b)
    IN  IF ~key_kind.ok THEN DecodeErr
        ELSE IF key_kind.val # KEY_KIND_ITEM THEN DecodeErr
        ELSE LET id == ReadU32(key_kind.rest)
             IN  IF ~id.ok THEN DecodeErr
                 ELSE LET item == ReadStrEof(id.rest)
                      IN  IF ~item.ok THEN DecodeErr
                          ELSE DecodeOk(ItemKey(id.val, item.str))

\* rmp_serde writes an unsigned integer in the shortest MessagePack form:
\* positive fixint, uint 8 (0xcc), uint 16 (0xcd), uint 32 (0xce).
PackUint(n) ==
    IF n < 128 THEN <<n>>
    ELSE IF n < 256 THEN <<204, n>>
    ELSE IF n < 65536 THEN <<205, n \div 256, n % 256>>
    ELSE <<206>> \o WriteU32(n)

\* A u64 read from the wire is kept as its eight big-endian bytes: the
\* model's integers hold 31 bits.
ToWide(n) == <<0, 0, 0, 0>> \o WriteU32(n)
U32_MAX == <<0, 0, 0, 0, 255, 255, 255, 255>>
U64_MAX == <<255, 255, 255, 255, 255, 255, 255, 255>>

\* Does v fit a u32?  Its value as an integer of the model, for v < 2^31.
FitsU32(v) == SubSeq(v, 1, 4) = <<0, 0, 0, 0>>
Narrow(v) == ReadU32(SubSeq(v, 5, 8)).val

\* v as i64 (v as time_t), for -2^31 <= v as i64 < 2^31
AsI64(v) ==
    IF v[1] < 128
        THEN Narrow(v)
        ELSE 0 - (((255 - v[5]) * 256 + (255 - v[6])) * 256 + (255 - v[7])) * 256
               - (255 - v[8]) - 1

\* rmp_serde reads an unsigned integer of any of these forms, and of
\* uint 64 (0xcf); a negative fixint (0xff) or no integer is an error.
UnpackUint(b) ==
    IF b = << >> THEN ReadErr
    ELSE IF b[1] < 128 THEN ReadOk(ToWide(b[1]), Tail(b))
    ELSE IF b[1] = 204 /\ Len(b) >= 2
        THEN ReadOk(ToWide(b[2]), SubSeq(b, 3, Len(b)))
    ELSE IF b[1] = 205 /\ Len(b) >= 3
        THEN ReadOk(ToWide(b[2] * 256 + b[3]), SubSeq(b, 4, Len(b)))
    ELSE IF b[1] = 206 /\ Len(b) >= 5
        THEN ReadOk(<<0, 0, 0, 0>> \o SubSeq(b, 2, 5), SubSeq(b, 6, Len(b)))
    ELSE IF b[1] = 207 /\ Len(b) >= 9
        THEN ReadOk(SubSeq(b, 2, 9), SubSeq(b, 10, Len(b)))
    ELSE ReadErr

\* rmp_serde writes a u64 in the shortest form: uint 64 (0xcf) beyond u32.
PackWide(v) ==
    IF FitsU32(v) /\ v[5] < 128 THEN PackUint(Narrow(v))
    ELSE IF FitsU32(v) THEN <<206>> \o SubSeq(v, 5, 8)
    ELSE <<207>> \o v

\* A struct or tuple of n fields is a MessagePack array of n elements
\* (fixarray, 0x90 + n).
PackArrayLen(n) == <<144 + n>>
UnpackArrayLen(b, n) ==
    IF b # << >> /\ b[1] = 144 + n THEN ReadOk(n, Tail(b)) ELSE ReadErr

\* FeedId(u32), a newtype struct (key_value.rs 96-97)
PackFeedId(id) == PackArrayLen(1) \o PackUint(id)
UnpackFeedId(b) ==
    LET a == UnpackArrayLen(b, 1)
        id == UnpackUint(a.rest)
    IN  IF ~a.ok THEN ReadErr
        ELSE IF ~id.ok THEN ReadErr
        ELSE IF ~FitsU32(id.val) THEN ReadErr
        ELSE ReadOk(Narrow(id.val), id.rest)

\* when_added: (u64, u32) (key_value.rs 202, 327)
PackWhen(secs, nanos) == PackArrayLen(2) \o PackUint(secs) \o PackUint(nanos)
UnpackWhen(b) ==
    LET a == UnpackArrayLen(b, 2)
        secs == UnpackUint(a.rest)
        nanos == UnpackUint(secs.rest)
    IN  IF ~a.ok THEN ReadErr
        ELSE IF ~secs.ok THEN ReadErr
        ELSE IF ~nanos.ok THEN ReadErr
        ELSE IF ~FitsU32(nanos.val) THEN ReadErr
        ELSE ReadOk([secs |-> secs.val, nanos |-> nanos.val], nanos.rest)

\* k * NANOS_PER_SEC as two 16-bit halves, k in 1 .. 4
NanosPerSecTimes(k) ==
    [hi |-> k * 15258 + ((k * 51712) \div 65536), lo |-> (k * 51712) % 65536]

\* nanos / NANOS_PER_SEC and nanos % NANOS_PER_SEC of a u32
WholeSecs(nanos) ==
    LET hi == nanos[5] * 256 + nanos[6]
        lo == nanos[7] * 256 + nanos[8]
    IN  Cardinality({k \in 1 .. 4 :
            \/ hi > NanosPerSecTimes(k).hi
            \/ hi = NanosPerSecTimes(k).hi /\ lo >= NanosPerSecTimes(k).lo})
SubsecNanos(nanos) ==
    LET hi == nanos[5] * 256 + nanos[6]
        lo == nanos[7] * 256 + nanos[8]
        k == WholeSecs(nanos)
    IN  IF k = 0 THEN hi * 65536 + lo
        ELSE (hi - NanosPerSecTimes(k).hi) * 65536 + (lo - NanosPerSecTimes(k).lo)

RECURSIVE CheckedAdd(_, _)
\* u64::checked_add of a small number c: carry is not 0 on overflow
CheckedAdd(v, c) ==
    IF v = << >>
        THEN [carry |-> c, val |-> << >>]
        ELSE LET last == v[Len(v)] + c
                 r == CheckedAdd(SubSeq(v, 1, Len(v) - 1), last \div 256)
             IN  [carry |-> r.carry, val |-> Append(r.val, last % 256)]

\* Duration::new(secs, nanos) (key_value.rs 217, 340): whole seconds of
\* nanos carry over, and it panics when that overflows the seconds.
DurationNew(secs, nanos) ==
    LET sum == CheckedAdd(secs, WholeSecs(nanos))
    IN  [panic |-> sum.carry # 0, secs |-> sum.val, nanos |-> SubsecNanos(nanos)]

\* UNIX_EPOCH + d (key_value.rs 217, 340), the outcomes it can have.  The
\* seconds of a SystemTime are a time_t: beyond i64::MAX the sum overflows,
\* where std panics, or (before it checked the conversion) wraps around.
EpochPlus(d) ==
    LET when == [secs |-> AsI64(d.secs), nanos |-> d.nanos]
    IN  IF d.secs[1] < 128 THEN {[panic |-> FALSE, when |-> when]}
        ELSE {[panic |-> FALSE, when |-> when], [panic |-> TRUE, when |-> NoTime]}

\* UNIX_EPOCH + Duration::new(secs, nanos) (key_value.rs 217, 340)
WhenAdded(secs, nanos) ==
    LET d == DurationNew(secs, nanos)
    IN  IF d.panic THEN {[panic |-> TRUE, when |-> NoTime]} ELSE EpochPlus(d)

\* when_added.duration_since(UNIX_EPOCH) is Ok (key_value.rs 222-224, 344-346)
SinceEpochOk(t) == t.secs >= 0

\* FeedValue::to_bytes (key_value.rs 221-230)
FeedValueToBytes(v) ==
    IF ~SinceEpochOk(v.when_added)
        THEN Panic
        ELSE Bytes(PackArrayLen(2) \o PackFeedId(v.feed_id)
                     \o PackWhen(v.when_added.secs, v.when_added.nanos))

\* FeedValue::from_bytes (key_value.rs 206-219), the outcomes it can have
FeedValueFromBytes(b) ==
    LET a == UnpackArrayLen(b, 2)
        id == UnpackFeedId(a.rest)
        w == UnpackWhen(id.rest)
    IN  IF ~a.ok THEN {DecodeErr}
        ELSE IF ~id.ok THEN {DecodeErr}
        ELSE IF ~w.ok THEN {DecodeErr}
        ELSE {IF t.panic THEN DecodePanic ELSE DecodeOk(FeedValue(id.val, t.when)) :
                 t \in WhenAdded(w.val.secs, w.val.nanos)}

\* ItemValue::to_bytes (key_value.rs 343-349)
ItemValueToBytes(v) ==
    IF ~SinceEpochOk(v.when_added)
        THEN Panic
        ELSE Bytes(PackArrayLen(1)
                     \o PackWhen(v.when_added.secs, v.when_added.nanos))

\* ItemValue::from_bytes (key_value.rs 331-341), the outcomes it can have
ItemValueFromBytes(b) ==
    LET a == UnpackArrayLen(b, 1)
        w == UnpackWhen(a.rest)
    IN  IF ~a.ok THEN {DecodeErr}
        ELSE IF ~w.ok THEN {DecodeErr}
        ELSE {IF t.panic THEN DecodePanic ELSE DecodeOk(ItemValue(t.when)) :
                 t \in WhenAdded(w.val.secs, w.val.nanos)}

\* to_bytes of the type of v; the outcomes from_bytes of a type can have
ToBytes(v) ==
    CASE v.type = "FeedKey" -> FeedKeyToBytes(v)
      [] v.type = "ItemKey" -> ItemKeyToBytes(v)
      [] v.type = "FeedValue" -> FeedValueToBytes(v)
      [] v.type = "ItemValue" -> ItemValueToBytes(v)

FromBytes(type, b) ==
    CASE type = "FeedKey" -> {FeedKeyFromBytes(b)}
      [] type = "ItemKey" -> {ItemKeyFromBytes(b)}
      [] type = "FeedValue" -> FeedValueFromBytes(b)
      [] type = "ItemValue" -> ItemValueFromBytes(b)

\* The inputs: characters of one, two and three UTF-8 bytes (NUL, e acute,
\* the euro sign), feed ids and times around the changes of encoded width,
\* one time before the epoch.
Chars == {0, 233, 8364}
RECURSIVE StringsOf(_)
StringsOf(n) ==
    IF n = 0 THEN {<< >>}
    ELSE StringsOf(n - 1)
           \cup {<<c>> \o str : c \in Chars, str \in {t \in StringsOf(n - 1) : Len(t) = n - 1}}
Strings == StringsOf(MaxStrLen)
FeedIds == {0, 1, 256, 2147483647}
Times == {[secs |-> sec, nanos |-> ns] :
             sec \in {-1, 0, 128, 1800000000}, ns \in {0, 999999999}}
FeedKeys == {FeedKey(url) : url \in Strings}
ItemKeys == {ItemKey(id, item) : id \in FeedIds, item \in Strings}
FeedValues == {FeedValue(id, t) : id \in FeedIds, t \in Times}
ItemValues == {ItemValue(t) : t \in Times}

\* A test of key_value.rs 409-445 starts: source is built; beside a key an
\* ItemKey is built.
InitCodec ==
    /\ MainIdle
    /\ FetcherIdle
    /\ codec_pc = "encode"
    /\ source \in FeedKeys \cup ItemKeys \cup FeedValues \cup ItemValues
    /\ other \in (IF source.type \in {"FeedKey", "ItemKey"} THEN ItemKeys
                                                            ELSE {NoValue})
    /\ bytes = Bytes(<< >>)
    /\ other_bytes = Bytes(<< >>)
    /\ search = << >>
    /\ destination = DecodeErr
    /\ target = "-"

\* let b = source.to_bytes() (key_value.rs 412, 423, 434, 442)
ConvertToBytes ==
    /\ codec_pc = "encode"
    /\ bytes' = ToBytes(source)
    /\ other_bytes' = IF other = NoValue THEN Bytes(<< >>) ELSE ToBytes(other)
    /\ search' = IF source.type = "ItemKey" THEN WithFeedId(source.feed_id)
                                            ELSE << >>
    /\ codec_pc' = IF ToBytes(source).panic THEN "done" ELSE "decode"
    /\ UNCHANGED <<source, other, destination, target>>
    /\ UNCHANGED <<mainVars, fetcherVars>>

\* let destination = from_bytes(&b) (key_value.rs 413, 424, 435, 443)
ConvertFromBytes ==
    /\ codec_pc = "decode"
    /\ destination' \in FromBytes(source.type, bytes.data)
    /\ codec_pc' = "done"
    /\ UNCHANGED <<source, other, bytes, other_bytes, search, target>>
    /\ UNCHANGED <<mainVars, fetcherVars>>

NextCodec == ConvertToBytes \/ ConvertFromBytes

SpecCodec == InitCodec /\ [][NextCodec]_vars

(***************************************************************************)
(* from_bytes on what a store may hold: the bytes of a key or value, cut   *)
(* short, with a byte overwritten, or the bytes of a value whose time is   *)
(* at the limits of (u64, u32).                                            *)
(***************************************************************************)
KeyTypes == {"FeedKey", "ItemKey"}
ValueTypes == {"FeedValue", "ItemValue"}

\* The keys and values that to_bytes encodes.
Encodable ==
    {v \in FeedKeys \cup ItemKeys \cup FeedValues \cup ItemValues : ~ToBytes(v).panic}

\* b cut short (or whole)
Truncations(b) == {SubSeq(b, 1, n) : n \in 0 .. Len(b)}

\* b with 0xff for the last byte of its kind (a key) or for its first byte
\* (a value), or for its last byte.  0xff is no byte of UTF-8 and no
\* unsigned integer or array of MessagePack.
Overwritten(type, b) ==
    LET at == IF type \in KeyTypes THEN 4 ELSE 1
    IN  {[b EXCEPT ![at] = 255], [b EXCEPT ![Len(b)] = 255]}

\* when_added: (u64, u32) with seconds and nanoseconds at their limits, and
\* with nanoseconds that are no u32, as rmp_serde writes them.
WhenAtLimits ==
    {PackArrayLen(2) \o PackWide(secs) \o PackWide(nanos) :
        secs \in {ToWide(1), U64_MAX}, nanos \in {ToWide(0), U32_MAX, U64_MAX}}

\* The bytes of a value v with such a time.
AtLimits(v) ==
    IF v.type = "FeedValue"
        THEN {PackArrayLen(2) \o PackFeedId(v.feed_id) \o w : w \in WhenAtLimits}
    ELSE IF v.type = "ItemValue"
        THEN {PackArrayLen(1) \o w : w \in WhenAtLimits}
    ELSE {}

\* What the store may hold in the place of v.to_bytes().
StoredBytes(v) ==
    Truncations(ToBytes(v).data) \cup Overwritten(v.type, ToBytes(v).data)
        \cup AtLimits(v)

\* A record of the store is about to be decoded as a target.  The bytes of
\* a value are decoded as a value only: read as a key, their first four
\* bytes are a kind beyond the model's integers.
InitDecoder ==
    /\ MainIdle
    /\ FetcherIdle
    /\ codec_pc = "stored"
    /\ source \in Encodable
    /\ other = NoValue
    /\ bytes \in {Bytes(d) : d \in StoredBytes(source)}
    /\ other_bytes = Bytes(<< >>)
    /\ search = << >>
    /\ destination = DecodeErr
    /\ target \in (IF source.type \in KeyTypes THEN KeyTypes \cup ValueTypes
                                               ELSE ValueTypes)

\* target::from_bytes(&bytes) (key_value.rs 144-159, 206-219, 262-281,
\* 331-341)
DecodeStored ==
    /\ codec_pc = "stored"
    /\ destination' \in FromBytes(target, bytes.data)
    /\ codec_pc' = "done"
    /\ UNCHANGED <<source, other, bytes, other_bytes, search, target>>
    /\ UNCHANGED <<mainVars, fetcherVars>>

NextDecoder == DecodeStored

SpecDecoder == InitDecoder /\ [][NextDecoder]_vars

(***************************************************************************)
(* Vocabulary of the properties.                                           *)
(***************************************************************************)
\* The session's loop is running or has just ended (before the commit).
InSession == cmd = "fetch" /\ pc \in {"poll", "items", "commit"}

\* fetch_and_send_feeds has returned and main_impl is about to commit.
AtSessionEnd == cmd = "fetch" /\ pc = "commit"

\* The pairs the Sender was invoked for in this session.
Handed == sessOk \cup sessFail

\* The pairs recorded during this session.
NewlyRecorded == PairsIn(db.feeds) \ PairsIn(db0)

C1_SessionInv ==
    InSession => /\ nsend = Cardinality(Handed)
                 /\ Handed \cap PairsIn(db0) = {}
                 /\ disk.kind = "db"
                 /\ db0 = FromJson(disk.json)

\* A step of the program: a session that sent items and whose commit succeeds
\* leaves them recorded in the database file, and a pair recorded in the
\* database file stays recorded unless a remove command commits.
C1_Persist ==
    /\ (AtSessionEnd /\ result' = "ok") => sessOk \subseteq PairsIn(disk'.json)
    /\ (cmd # "remove") => PairsIn(disk.json) \subseteq PairsIn(disk'.json)

C2_RecordedIffSent == AtSessionEnd => NewlyRecorded = sessOk

\* C2 as amended: this holds of every session run without no_send, wherever it
\* stopped; a session run with no_send never invokes the Sender (and records
\* new items unsent).
C2_RecordedIffSentUnlessNoSend ==
    AtSessionEnd => IF opts.no_send
                       THEN nsend = 0 /\ Handed = {}
                       ELSE NewlyRecorded = sessOk

\* A session without no_send that sent some items and then stopped on a failure.
C2_Witness ==
    /\ AtSessionEnd /\ ~opts.no_send
    /\ sessOk # {} /\ sessFail # {}
    /\ NewlyRecorded = sessOk

(***************************************************************************)
(* C3.  Partial failure: what was sent before the failure stays recorded.  *)
(***************************************************************************)
\* C3: when send fails on the k-th new item of a session, at the end of the
\* session exactly the k-1 items sent before it are newly recorded, the
\* failing item and every later one are not; and when the commit that follows
\* succeeds the database file holds exactly the session's records.
C3_PartialFailure ==
    /\ (AtSessionEnd /\ stopped = "sendfail") =>
          /\ Cardinality(sessFail) = 1
          /\ Cardinality(sessOk) = nsend - 1
          /\ NewlyRecorded = sessOk
          /\ sessFail \cap PairsIn(db.feeds) = {}
    /\ (cmd = "fetch" /\ pc = "exit" /\ stopped = "sendfail" /\ result = "ok") =>
          /\ disk = DbFile(ToJson(db.feeds))
          /\ sessOk \subseteq PairsIn(disk.json)
          /\ sessFail \cap PairsIn(disk.json) = {}

\* The send failed after an earlier item was sent, with a later new item of the
\* same feed not reached, and the commit succeeded.
C3_Witness ==
    /\ cmd = "fetch" /\ pc = "exit" /\ stopped = "sendfail" /\ result = "ok"
    /\ sessOk # {}
    /\ todo # {}
    /\ sessOk \subseteq PairsIn(disk.json)

(***************************************************************************)
(* C4.  No send after the first send failure.                              *)
(***************************************************************************)
\* C4: once a send has failed, the session makes no further call of
\* sender.send and reconciles nothing more: it consumes no further result and
\* changes no record.
C4_NoSendAfterFailure ==
    [][(sessFail # {} /\ cmd' = "fetch") =>
          /\ nsend' = nsend
          /\ sessOk' = sessOk /\ sessFail' = sessFail
          /\ pool' = pool /\ todo' = todo
          /\ db' = db]_vars

\* The first send of a session failed while a new item of the same feed and a
\* result of another feed were still to come.
C4_Witness ==
    /\ AtSessionEnd /\ stopped = "sendfail"
    /\ nsend = 1
    /\ todo # {} /\ pool # {}

(***************************************************************************)
(* C5.  A session ends with exactly one commit.                            *)
(***************************************************************************)
\* C5: fetch_and_send_feeds returns Ok however its loop ended, no commit
\* happens while it runs, and the fetch command then calls commit exactly
\* once, which writes the feeds as the session left them.
C5_OneCommit ==
    /\ InSession => ncommit = 0
    /\ AtSessionEnd =>
          /\ stopped \in {"eos", "fetcherr", "sendfail"}
          /\ call = "fetch_and_send_feeds" /\ result = "ok"
    /\ (cmd = "fetch" /\ pc = "exit" /\ stopped # "-") =>
          /\ ncommit = 1
          /\ call = "commit"
          /\ result = "ok" => disk = DbFile(ToJson(db.feeds))

\* A session that stopped on a send failure was committed, with its records.
C5_Witness ==
    /\ cmd = "fetch" /\ pc = "exit" /\ stopped = "sendfail"
    /\ ncommit = 1 /\ result = "ok"
    /\ sessOk # {}
    /\ sessOk \subseteq PairsIn(disk.json)

C7_UnknownFeedFails ==
    (InSession /\ opts.some /\ ~(opts.feed_urls \subseteq DOMAIN db0)) =>
        /\ batch = {}
        /\ nsend = 0
        /\ db.feeds = db0
        /\ call = "fetch_and_send_feeds" => result # "ok"

(***************************************************************************)
(* C8.  The URLs handed to the fetch pipeline.                             *)
(***************************************************************************)
\* C8: the batch handed to the fetcher is every feed URL of the store when no
\* URL set is given, otherwise the feed URLs of the store that are in the set;
\* every URL of the batch is a feed of the store.
C8_Batch ==
    InSession =>
        /\ batch = IF opts.some THEN (DOMAIN db0) \cap opts.feed_urls ELSE DOMAIN db0
        /\ batch \subseteq DOMAIN db.feeds
        /\ pool \subseteq batch

\* A session narrowed to a set that names a feed of the store and leaves
\* another feed of the store out.
C8_Witness ==
    /\ cmd = "fetch" /\ pc = "poll"
    /\ opts.some
    /\ batch # {}
    /\ batch # DOMAIN db0

(***************************************************************************)
(* C9.  The timestamp of an item that reappears.                           *)
(***************************************************************************)
\* C9: when the reconciliation of a fetched feed is over, every item of it
\* that was already recorded carries the time of this fetch.
C9_LastObservedRefreshed ==
    (cmd = "fetch" /\ pc = "items" /\ todo = {}) =>
        \A i \in (DOMAIN cur.items) \cap (DOMAIN db0[cur.url].items) :
            db.feeds[cur.url].items[i].last_observed = clock

(***************************************************************************)
(* C10.  Database::create.                                                 *)
(***************************************************************************)
\* C10 as stated: a create that follows a create on the same path fails, so
\* create never returns Ok twice.
C10_SecondCreateFails == createOks <= 1

\* What the last call of create returned: it fails when something is at the
\* path, and otherwise returns an empty database unless the metadata lookup
\* itself failed.
C10_CreateInv ==
    /\ call = "create" =>
          /\ disk.kind # "nofile" => result \in {"err_exists", "err_metadata"}
          /\ disk.kind = "nofile" => result \in {"ok", "err_metadata"}
          /\ result = "ok" => (db = Db(EmptyMap) /\ pc = "commit")
          /\ result # "ok" => (db = NoDb /\ pc = "exit")
    /\ (cmd = "create" /\ call = "commit" /\ result = "ok") => disk = DbFile(EmptyMap)

\* create writes nothing at the path.
C10_CreateStep == (cmd = "create" /\ pc = "create") => disk' = disk

\* C10 as amended: create fails whenever something is at the path (or the
\* metadata lookup fails) and otherwise returns an empty database; it writes
\* nothing, so it is a create followed by a successful commit after which a
\* second create on the same path fails.
C10_CreateFailsIfExists == []C10_CreateInv /\ [][C10_CreateStep]_vars

\* A create fails on the database that an earlier create and commit wrote.
C10_Witness ==
    /\ cmd = "create" /\ call = "create" /\ result = "err_exists"
    /\ disk.kind = "db"
    /\ createOks = 1

(***************************************************************************)
(* C11.  Database::open.                                                   *)
(***************************************************************************)
\* Database::open has just returned to main_impl.
JustOpened == call = "open" /\ pc \in {"add", "remove", "list", "session", "exit"}

\* C11: open fails when nothing is at the path; when it returns Ok the
\* database it returns holds exactly what the database file holds, which is
\* what the last successful commit wrote; so an open that follows a create
\* and its successful commit returns the committed (empty) feeds.
C11_Open ==
    /\ JustOpened =>
          /\ disk.kind = "nofile" => result = "err_open"
          /\ createOks = 0 => result # "ok"
          /\ result = "ok" =>
                /\ disk.kind = "db"
                /\ db.open
                /\ ToJson(db.feeds) = disk.json
                /\ PairsIn(db.feeds) = PairsIn(disk.json)
          /\ result # "ok" => (db = NoDb /\ pc = "exit")
    /\ (call = "commit" /\ result = "ok") => disk = DbFile(ToJson(db.feeds))

\* An open succeeds on the database that a create and its commit wrote.
C11_Witness ==
    /\ JustOpened /\ result = "ok"
    /\ createOks = 1
    /\ disk = DbFile(EmptyMap)
    /\ db = Db(EmptyMap)

(***************************************************************************)
(* C12.  add_feed of a feed that exists.                                   *)
(***************************************************************************)
\* C12: add_feed(u) on a store that contains feed u fails and changes nothing:
\* the Database (the feed set, the title and the items of u) and the database
\* file are as before, and the command ends without a commit.
C12_AddExistingFails ==
    [][(cmd = "add" /\ pc = "add" /\ arg \in DOMAIN db.feeds) =>
          /\ call' = "add_feed" /\ result' = "err_feed_exists"
          /\ db' = db
          /\ disk' = disk
          /\ pc' = "exit"]_vars

\* add_feed has failed on a feed that has a title and recorded items.
C12_Witness ==
    /\ cmd = "add" /\ call = "add_feed" /\ result = "err_feed_exists"
    /\ db.feeds[arg].title # None
    /\ DOMAIN db.feeds[arg].items # {}

(***************************************************************************)
(* C13.  The add subcommand as a transaction.                              *)
(***************************************************************************)
\* C13: the add subcommand changes the database file only by its successful
\* commit, which leaves the file with the feeds it held plus the new feed,
\* without items; a failure of any step (open, add_feed, commit) leaves the
\* database file exactly as it was.
C13_AddCommits ==
    /\ [][cmd = "add" =>
             \/ disk' = disk
             \/ /\ pc = "commit" /\ result' = "ok"
                /\ arg \notin DOMAIN disk.json
                /\ disk' = DbFile(ToJson(Put(FromJson(disk.json), arg, NewFeed)))]_vars
    /\ []((cmd = "add" /\ call = "commit" /\ result = "ok") =>
             /\ disk.kind = "db"
             /\ arg \in DOMAIN disk.json
             /\ DOMAIN disk.json[arg].items = {})
    /\ [][(cmd = "add" /\ pc = "commit" /\ result' # "ok") => disk' = disk]_vars

\* An add has been committed to a database that held another feed with items.
C13_Witness ==
    /\ cmd = "add" /\ call = "commit" /\ result = "ok"
    /\ arg \in DOMAIN disk.json
    /\ PairsIn(disk.json) # {}

(***************************************************************************)
(* C14.  remove_feed of a feed that does not exist.                        *)
(***************************************************************************)
\* C14: remove_feed(u) on a store without feed u fails and changes nothing,
\* and on a store with feed u it succeeds.
C14_RemoveMissingFails ==
    [][(cmd = "remove" /\ pc = "remove") =>
          /\ call' = "remove_feed"
          /\ arg \notin DOMAIN db.feeds =>
                /\ result' = "err_no_feed"
                /\ db' = db
                /\ disk' = disk
                /\ pc' = "exit"
          /\ arg \in DOMAIN db.feeds =>
                /\ result' = "ok"
                /\ pc' = "commit"]_vars

\* remove_feed has failed on a store that holds another feed and its items.
C14_Witness ==
    /\ cmd = "remove" /\ call = "remove_feed" /\ result = "err_no_feed"
    /\ arg \notin DOMAIN db.feeds
    /\ PairsIn(db.feeds) # {}

(***************************************************************************)
(* C15.  What remove_feed removes.                                         *)
(***************************************************************************)
\* C15: a successful remove_feed(u) removes feed u with every item of u and
\* leaves every other feed, with its title and items, as it was; the commit
\* that follows writes the store without u.
C15_RemoveFrame ==
    /\ [][(cmd = "remove" /\ pc = "remove" /\ arg \in DOMAIN db.feeds) =>
             /\ DOMAIN db'.feeds = (DOMAIN db.feeds) \ {arg}
             /\ \A v \in DOMAIN db'.feeds : db'.feeds[v] = db.feeds[v]
             /\ PairsIn(db'.feeds) = PairsIn(db.feeds) \ PairsOf(arg)]_vars
    /\ [][(cmd = "remove" /\ pc = "commit" /\ result' = "ok") =>
             /\ DOMAIN disk'.json = (DOMAIN disk.json) \ {arg}
             /\ \A v \in DOMAIN disk'.json : disk'.json[v] = disk.json[v]]_vars

\* A feed with items has been removed from a store that holds another feed with
\* items.
C15_Witness ==
    /\ cmd = "remove" /\ call = "remove_feed" /\ result = "ok"
    /\ DOMAIN disk.json[arg].items # {}
    /\ PairsIn(db.feeds) # {}

(***************************************************************************)
(* C16.  The feeds of the store.                                           *)
(***************************************************************************)
\* C16: the feed URLs of the database file are exactly those whose add
\* command succeeded and that no later successful remove command removed; a
\* session opens with exactly these feeds and never adds or removes one, in
\* memory or, by its commit, in the file.
C16_FeedsAreAddedNotRemoved ==
    /\ [](/\ disk.kind = "db" => DOMAIN disk.json = added
          /\ disk.kind # "db" => added = {}
          /\ InSession => (DOMAIN db.feeds = added /\ DOMAIN db0 = added))
    /\ [][cmd = "fetch" => (added' = added /\ DOMAIN disk'.json = DOMAIN disk.json)]_vars

\* Two feeds were added, a session recorded items of one, and the other has
\* been removed.
C16_Witness ==
    /\ cmd = "remove" /\ call = "commit" /\ result = "ok"
    /\ added # {} /\ arg \notin added
    /\ DOMAIN disk.json = added
    /\ PairsIn(disk.json) # {}

(***************************************************************************)
(* C17.  Calls of the Sender over the life of the store.                   *)
(***************************************************************************)
\* C17 as stated: over the life of the store, under any sequence of adds,
\* removes and sessions, the Sender is called at most once for a given item of
\* a given feed; so a session never hands over the pair Watched when an
\* earlier session handed it over.
C17_AtMostOncePerLifetime ==
    InSession => ~(watched # "never" /\ Watched \in Handed)

\* During a session: no pair is handed to the Sender twice, none that the
\* store records; a pair handed over by an earlier session, its feed not
\* removed since, is handed over again only if it was not recorded then.
C17_SessionInv ==
    InSession => /\ Cardinality(Handed) = nsend
                 /\ \A p \in Handed : p \notin PairsIn(db0)
                 /\ (Watched \in Handed /\ watched = "sent") => Watched \in lost

\* A successful remove command leaves no record of the items of its feed.
C17_RemoveForgets ==
    (cmd = "remove" /\ pc = "commit" /\ result' = "ok") =>
        /\ PairsOf(arg) \cap PairsIn(disk'.json) = {}
        /\ PairsOf(arg) \cap lost' = {}
        /\ PairsIn(disk'.json) = PairsIn(disk.json) \ PairsOf(arg)

\* C17 as amended: the Sender is called at most once for a given item of a
\* given feed within a session, and never for an item the store records when
\* the session starts.  Over the life of the store it is called again for an
\* item whose earlier send failed or was not committed, and for the items of a
\* feed that was removed, which takes the records of its items away, and added
\* again.
C17_AtMostOncePerRecord == []C17_SessionInv /\ [][C17_RemoveForgets]_vars

\* A session sends the item Watched again: an earlier session handed it over,
\* and its feed was removed and added again since.
C17_Witness ==
    /\ InSession
    /\ watched = "forgotten"
    /\ Watched \in sessOk
    /\ Watched \notin lost

(***************************************************************************)
(* C18.  Listing the feed URLs.                                            *)
(***************************************************************************)
\* C18: the list command prints every feed URL of the store exactly once and
\* no other URL, in one finite pass, and changes neither the Database nor the
\* database file; what it prints is, as a set, the feed URLs of the database
\* file, so two listings with no commit in between print the same set.
C18_List ==
    /\ []((cmd = "list" /\ call = "feed_urls") =>
             /\ result = "ok" /\ pc = "exit"
             /\ Len(listed) = Cardinality(DOMAIN db.feeds)
             /\ {listed[k] : k \in DOMAIN listed} = DOMAIN db.feeds
             /\ \A j, k \in DOMAIN listed : j # k => listed[j] # listed[k]
             /\ disk.kind = "db" /\ DOMAIN db.feeds = DOMAIN disk.json)
    /\ [][cmd = "list" => (disk' = disk /\ (pc = "list" => db' = db))]_vars

\* A store of two feeds has been listed.
C18_Witness ==
    /\ cmd = "list" /\ call = "feed_urls"
    /\ Len(listed) = 2
    /\ listed[1] # listed[2]

(***************************************************************************)
(* C19.  Isolation of a session from other processes.                      *)
(***************************************************************************)
\* C19: a session is isolated from other processes, so a feed that another
\* process added with success while the session was running is in the
\* database file after the session has committed.
C19_NoLostUpdate ==
    (cmd = "fetch" /\ call = "commit" /\ result = "ok") =>
        concurrent \subseteq DOMAIN disk.json

(***************************************************************************)
(* C20.  commit is atomic.                                                 *)
(***************************************************************************)
\* At every point of a commit that may begin here, whatever is at
\* working_path, the database file holds the complete previous content or the
\* complete new content, the new one only once the rename is done; and a
\* commit in which a step fails returns with the previous content in place.
C20_PointsInv ==
    pc = "commit" =>
        LET new == DbFile(ToJson(db.feeds))
        IN  \A w \in WorkingFiles :
               /\ \A fs \in CommitPoints("none", Files(disk, w), new) :
                     \/ fs.db = disk
                     \/ fs.db = new /\ fs.working = NoFile
               /\ \A f \in CommitSteps \ {"none"} :
                     CommitEnd(f, Files(disk, w), new).db = disk

\* A step of the program changes the database file only by a commit that
\* returns Ok, to the complete new content; a commit that returns an error
\* leaves the previous content.
C20_CommitStep ==
    \/ disk' = disk
    \/ /\ pc = "commit" /\ call' = "commit" /\ result' = "ok"
       /\ disk' = DbFile(ToJson(db.feeds))

\* C20: commit writes and syncs the working file and then renames it over the
\* database: at every point of a commit, a step having failed or not, the file
\* at the database path holds the complete previous content or the complete
\* new content, and the new one only once the rename is done.
C20_CommitAtomic == []C20_PointsInv /\ [][C20_CommitStep]_vars

\* A commit that would have changed the recorded items failed and left the
\* previous database.
C20_Witness ==
    /\ cmd = "fetch" /\ call = "commit" /\ result = "err_commit"
    /\ disk.kind = "db"
    /\ PairsIn(db.feeds) # PairsIn(disk.json)

(***************************************************************************)
(* C21.  A no-send session records what a normal session whose sends all   *)
(* succeed records, and never invokes the Sender.                          *)
(***************************************************************************)
\* In a session run with no_send the Sender is not invoked.
C21_NoSendInv ==
    (InSession /\ opts.no_send) => (nsend = 0 /\ Handed = {})

\* Every turn of the item loop of a no_send session leaves the store as the
\* same turn of a normal session whose send returned Ok leaves it, and goes
\* on with the remaining items.
C21_NoSendStep ==
    [][(InSession /\ opts.no_send /\ pc = "items" /\ todo # {})
         => \E i \in todo :
               /\ db' = Db(AfterSend(db.feeds, cur.url, i, cur.items[i], "ok"))
               /\ todo' = todo \ {i}
               /\ pc' = "items"
               /\ nsend' = nsend]_vars

\* C21: a session run with no_send updates the store exactly as a normal
\* session in which every send succeeds would (same items recorded, same
\* titles: the title update of FetchOk does not look at the options), and
\* invokes the Sender zero times.
C21_NoSendAsAllSent == []C21_NoSendInv /\ C21_NoSendStep

\* A no_send session ended having recorded new items and a new title
\* without a single send.
C21_Witness ==
    /\ AtSessionEnd /\ opts.no_send /\ stopped = "eos"
    /\ nsend = 0
    /\ NewlyRecorded # {}
    /\ \E u \in DOMAIN db0 : db.feeds[u].title # db0[u].title

(***************************************************************************)
(* Vocabulary of the fetcher's properties.                                 *)
(***************************************************************************)
\* How many results of URL u the channel holds.
CountIn(ch, u) == Cardinality({i \in 1 .. Len(ch) : ch[i].url = u})

\* The URLs of the batch handed to fetch.
Fetched == 1 .. Len(fetched)

\* Every worker has returned from fetch_thread.
AllExited == \A w \in Workers : thread[w] = "done"

(***************************************************************************)
(* C22.  The end of the stream comes after every worker exited and the     *)
(* channel is drained.                                                     *)
(***************************************************************************)
\* While the stream is polled, every result pushed is in the channel or was
\* delivered, once; at the end of the stream every worker has exited, the
\* channel is empty and every result pushed was delivered exactly once.
C22_Inv ==
    /\ recv_chan \in {"open", "eos"} =>
          \A u \in BatchUrls : pushed[u] = delivered[u] + CountIn(chan, u)
    /\ recv_chan = "eos" =>
          /\ AllExited
          /\ chan = << >>
          /\ \A u \in BatchUrls : delivered[u] = pushed[u] /\ delivered[u] <= 1

\* Nothing is pushed or delivered after the end of the stream.
C22_Step ==
    [][recv_chan = "eos" => (delivered' = delivered /\ pushed' = pushed)]_vars

\* C22: the stream reports end-of-stream only after every worker has exited
\* and the channel is drained: every result a worker pushed successfully is
\* delivered exactly once to a consumer that keeps polling, before
\* end-of-stream.
C22_EndAfterDrain == []C22_Inv /\ C22_Step

\* The stream ended after delivering the results of at least two feeds.
C22_Witness ==
    /\ recv_chan = "eos"
    /\ \E u, v \in Fetched : u # v /\ delivered[u] = 1 /\ delivered[v] = 1

(***************************************************************************)
(* C25.  Every URL of the batch is taken by one worker.                    *)
(***************************************************************************)
\* No URL is popped twice, no two workers hold the same URL, every URL not
\* in the pool any more was popped, and once the stream has ended every URL
\* of the batch was popped exactly once.
C25_Inv ==
    /\ \A u \in BatchUrls : taken[u] <= 1
    /\ \A w, x \in Workers :
          (w # x /\ feed_url[w] # 0) => feed_url[w] # feed_url[x]
    /\ \A w \in Workers : feed_url[w] # 0 => taken[feed_url[w]] = 1
    /\ recv_chan = "eos" => \A u \in Fetched : taken[u] = 1

\* A worker that looks into the pool exits exactly when it finds it empty.
C25_Step ==
    [][\A w \in Workers :
          (thread[w] = "pop" /\ thread'[w] # "pop")
             => (thread'[w] = "done" <=> feed_urls = << >>)]_vars

\* C25: every URL of the batch is taken from the shared pool by at most one
\* worker; when the consumer keeps polling to end-of-stream every URL is
\* taken by exactly one worker; a worker exits when it finds the pool empty.
C25_TakenOnce == []C25_Inv /\ C25_Step

\* Every worker is in a network call, each for a URL of its own, and the
\* pool is not yet empty.
C25_Witness ==
    /\ \A w \in Workers : thread[w] = "fetch"
    /\ \A w, x \in Workers : w # x => feed_url[w] # feed_url[x]
    /\ feed_urls # << >>

(***************************************************************************)
(* C26.  What a worker does with a URL it took.                            *)
(***************************************************************************)
\* A worker about to push holds the one result of its URL: Err after a
\* transport failure, Ok carrying the URL after a fetch that parsed, never
\* anything after a parse failure; no URL has more than one result pushed.
C26_Inv ==
    /\ \A w \in Workers :
          thread[w] = "push" =>
             /\ outcome[w] \in {"err", "ok"}
             /\ pending[w] = (IF outcome[w] = "err" THEN ErrMsg(feed_url[w])
                                                    ELSE OkMsg(feed_url[w]))
             /\ pushed[feed_url[w]] = 0
    /\ \A u \in BatchUrls : pushed[u] <= taken[u] /\ pushed[u] <= 1

\* The end of a network call pushes nothing by itself and leads to the next
\* URL (parse failure) or to one push; a push that succeeds adds exactly the
\* worker's result and leads to the next URL; a push that fails adds nothing
\* and ends the worker.
C26_Step ==
    [][\A w \in Workers :
          /\ (thread[w] = "fetch" /\ thread'[w] # "fetch")
                => /\ pushed' = pushed /\ chan' = chan
                   /\ thread'[w] \in {"pop", "push"}
          /\ (thread[w] = "push" /\ thread'[w] # "push")
                => \/ /\ thread'[w] = "pop"
                      /\ chan' = Append(chan, pending[w])
                      /\ pushed' = [pushed EXCEPT ![feed_url[w]] = 1]
                   \/ /\ thread'[w] = "done"
                      /\ recv_chan = "dropped"
                      /\ pushed' = pushed /\ chan' = chan]_vars

\* C26: for each URL a worker takes exactly one of: a transport failure
\* pushes exactly one Err; a successful fetch with a parse failure pushes
\* nothing; success pushes exactly one Ok carrying that URL; then the worker
\* takes the next URL unless its push failed.
C26_OneOutcome == []C26_Inv /\ C26_Step

\* The stream ended with one URL taken whose body did not parse, nothing
\* pushed for it, and another whose result was pushed.
C26_Witness ==
    /\ recv_chan = "eos"
    /\ Len(fetched) >= 2
    /\ \E u, v \in Fetched : pushed[u] = 0 /\ taken[u] = 1 /\ pushed[v] = 1

(***************************************************************************)
(* C27.  Workers after the consumer dropped the stream.                    *)
(***************************************************************************)
\* C27 as stated: once the consumer has closed the receiving side, every
\* worker exits after its current network call completes: the call is
\* followed by a push, the push fails and the worker exits; it takes no
\* further URL and starts no further network call.
C27_ExitsAfterCurrentCall ==
    [][recv_chan = "dropped" =>
          \A w \in Workers :
             /\ thread[w] = "fetch" => thread'[w] \in {"fetch", "push"}
             /\ thread[w] = "push" => thread'[w] \in {"push", "done"}]_vars

(***************************************************************************)
(* C28.  The fetcher terminates.                                           *)
(***************************************************************************)
\* With an empty batch no URL is taken, so no network call is made.
C28_EmptyBatch == fetched = << >> => \A u \in BatchUrls : taken[u] = 0

\* C28: if every network request returns and the consumer keeps polling,
\* every worker eventually exits and the stream eventually reports
\* end-of-stream; with an empty batch this happens without any network call.
C28_Terminates == <>(AllExited /\ recv_chan = "eos") /\ []C28_EmptyBatch

\* The stream of a full batch has ended, every worker gone.
C28_Witness == AllExited /\ recv_chan = "eos" /\ Len(fetched) = MaxBatch

(***************************************************************************)
(* C29.  The channel is bounded.                                           *)
(***************************************************************************)
\* C29 as stated: the result channel never holds more than
\* CHANNEL_CAPACITY = 2 * NUM_FETCHERS undelivered results.
C29_AtMostCapacity == Len(chan) <= CHANNEL_CAPACITY

(***************************************************************************)
(* C23.  Keys and values round-trip through the codec.                     *)
(***************************************************************************)
\* C23: for every valid FeedKey, ItemKey, FeedValue and ItemValue x (a
\* when_added not before the epoch, so that to_bytes returns), decoding the
\* bytes produced by encoding x succeeds and returns a value equal to x.
C23_RoundTrip ==
    /\ codec_pc \in {"decode", "done"} =>
          (bytes.panic <=> ~SinceEpochOk(source.when_added))
    /\ (codec_pc = "done" /\ ~bytes.panic) => destination = DecodeOk(source)

\* An ItemKey with the largest feed id and an item id of characters of
\* several bytes has gone through to_bytes and from_bytes.
C23_Witness ==
    /\ codec_pc = "done"
    /\ destination = DecodeOk(source)
    /\ source.type = "ItemKey"
    /\ source.feed_id = 2147483647
    /\ Len(bytes.data) > 8 + Len(source.item_id)
    /\ Len(source.item_id) = MaxStrLen

(***************************************************************************)
(* C24.  Item keys of distinct feeds do not collide.                       *)
(***************************************************************************)
\* s is a prefix of t
IsPrefix(s, t) == Len(s) <= Len(t) /\ SubSeq(t, 1, Len(s)) = s

\* C24: for any two distinct feeds a and b, no encoded ItemKey of a is a
\* byte-prefix of an encoded ItemKey of b, and the feed-scoped search prefix
\* of a is a prefix of every encoded ItemKey of a and of no encoded ItemKey
\* of b.
C24_Prefix ==
    (codec_pc \in {"decode", "done"} /\ source.type = "ItemKey") =>
        /\ IsPrefix(search, bytes.data)
        /\ (other.feed_id = source.feed_id) => IsPrefix(search, other_bytes.data)
        /\ (other.feed_id # source.feed_id) =>
              /\ ~IsPrefix(bytes.data, other_bytes.data)
              /\ ~IsPrefix(other_bytes.data, bytes.data)
              /\ ~IsPrefix(search, other_bytes.data)

\* Two item keys of feeds 1 and 256 were encoded, the first with an item id
\* that starts with NUL, the second with an empty item id: without the
\* fixed width of the feed id their bytes would coincide.
C24_Witness ==
    /\ codec_pc = "decode"
    /\ source.type = "ItemKey" /\ source.feed_id = 1 /\ source.item_id = <<0>>
    /\ other.feed_id = 256 /\ other.item_id = << >>

(***************************************************************************)
(* C30.  The order of the sends within a feed.                             *)
(***************************************************************************)
\* The place of item x in the order q.
PlaceIn(q, x) == CHOOSE k \in DOMAIN q : q[k] = x

\* C30 as stated: within one fetched feed, the new items are handed to the
\* Sender in the order in which the parser emitted them: the item of every
\* send comes, in that order, before every new item still to be handled.
C30_ParserOrder ==
    [][(cmd = "fetch" /\ pc = "items" /\ nsend' = nsend + 1)
         => \A i \in todo \ todo' :
               \A j \in todo' : PlaceIn(cur.emitted, i) < PlaceIn(cur.emitted, j)]_vars

(***************************************************************************)
(* C31.  The order of the encoded keys.                                    *)
(***************************************************************************)
\* s comes before t in byte-lexicographic order (the order of the store)
LexLess(s, t) ==
    \E i \in 0 .. Len(s) :
        /\ i <= Len(t)
        /\ SubSeq(s, 1, i) = SubSeq(t, 1, i)
        /\ IF i = Len(s) THEN i < Len(t)
                         ELSE i < Len(t) /\ s[i + 1] < t[i + 1]

\* ItemKey a comes before ItemKey b as a pair (feed id, bytes of the item id)
PairLess(a, b) ==
    \/ a.feed_id < b.feed_id
    \/ a.feed_id = b.feed_id /\ LexLess(AsBytes(a.item_id), AsBytes(b.item_id))

\* C31: the byte-lexicographic order of any two encoded ItemKeys equals the
\* order of their (feed id, item id bytes) pairs, and every encoded FeedKey
\* sorts before every encoded ItemKey.
C31_OrderPreserving ==
    codec_pc \in {"decode", "done"} =>
        /\ source.type = "ItemKey" =>
              /\ LexLess(bytes.data, other_bytes.data) <=> PairLess(source, other)
              /\ LexLess(other_bytes.data, bytes.data) <=> PairLess(other, source)
        /\ source.type = "FeedKey" => LexLess(bytes.data, other_bytes.data)

\* Two item keys were encoded: feed 256 with an empty item id and feed 1
\* with an item id of two three-byte characters.  The second one sorts
\* first, although the low byte of its feed id and its item id are larger.
C31_Witness ==
    /\ codec_pc = "decode"
    /\ source.type = "ItemKey" /\ source.feed_id = 256 /\ source.item_id = << >>
    /\ other.feed_id = 1 /\ other.item_id = <<8364, 8364>>
    /\ LexLess(other_bytes.data, bytes.data)

(***************************************************************************)
(* C32.  The range of the feed table.                                      *)
(***************************************************************************)
\* b lies in the half-open range [min_search, max_search)
InFeedRange(b) == (b = MinSearch \/ LexLess(MinSearch, b)) /\ LexLess(b, MaxSearch)

\* C32: every encoded FeedKey lies in [min_search, max_search) in
\* byte-lexicographic order, and no encoded ItemKey lies in that range.
C32_FeedRange ==
    codec_pc \in {"decode", "done"} =>
        /\ source.type = "FeedKey" =>
              InFeedRange(bytes.data) /\ ~InFeedRange(other_bytes.data)
        /\ source.type = "ItemKey" => ~InFeedRange(bytes.data)

\* The feed key of the empty URL, whose bytes are min_search itself, was
\* encoded beside an item key of feed 0 with an empty item id, the smallest
\* of the item keys.
C32_Witness ==
    /\ codec_pc = "decode"
    /\ source.type = "FeedKey" /\ source.feed_url = << >>
    /\ bytes.data = MinSearch
    /\ other.feed_id = 0 /\ other.item_id = << >>
    /\ LexLess(MaxSearch, other_bytes.data)

(***************************************************************************)
(* C33.  Decoding a key checks its kind.                                   *)
(***************************************************************************)
\* C33: FeedKey decoding fails on every encoded ItemKey, ItemKey decoding
\* fails on every encoded FeedKey, and decoding a key fails when fewer than
\* 4 bytes are available for the kind discriminant.
C33_KindChecked ==
    codec_pc = "done" =>
        /\ (source.type = "ItemKey" /\ bytes = ToBytes(source) /\ target = "FeedKey")
              => destination = DecodeErr
        /\ (source.type = "FeedKey" /\ bytes = ToBytes(source) /\ target = "ItemKey")
              => destination = DecodeErr
        /\ (Len(bytes.data) < 4 /\ target \in KeyTypes) => destination = DecodeErr

\* The whole bytes of the item key (1, "e acute") were decoded as a FeedKey
\* and the decoding failed, although the bytes after the kind are a string
\* of well-formed UTF-8.
C33_Witness ==
    /\ codec_pc = "done"
    /\ source = ItemKey(1, <<233>>)
    /\ bytes = ToBytes(source)
    /\ target = "FeedKey"
    /\ ReadStrEof(ReadKeyKind(bytes.data).rest).ok
    /\ destination = DecodeErr

(***************************************************************************)
(* C34.  Decoding never ends the process.                                  *)
(***************************************************************************)
\* C34: decoding arbitrary bytes as a key or a value never terminates the
\* process: truncated buffers, malformed UTF-8, a wrong kind and undecodable
\* or out-of-range value fields, including seconds and nanoseconds at the
\* limits of u64 and u32, all yield an error result.
C34_NeverFatal == codec_pc = "done" => destination # DecodePanic

(***************************************************************************)
(* C35.  The URL of a result is a feed of the store.                       *)
(***************************************************************************)
\* C35: during a session, every (url, feed) result the orchestrator consumes
\* carries a url that is a feed of the store at that moment: every URL still
\* to come from the pipeline is one, the url of the result taken is one, and
\* it stays one while the items of the result are handled.
C35_Inv ==
    /\ (cmd = "fetch" /\ pc = "poll") => pool \subseteq DOMAIN db.feeds
    /\ (cmd = "fetch" /\ pc = "items") => cur.url \in DOMAIN db.feeds

C35_Step ==
    [][(cmd = "fetch" /\ pc = "poll" /\ pc' = "items")
          => cur'.url \in pool /\ cur'.url \in DOMAIN db.feeds
                /\ DOMAIN db'.feeds = DOMAIN db.feeds]_vars

C35_LookupNeverFails == []C35_Inv /\ C35_Step

\* A session that was asked for a URL that is no feed of the store has
\* consumed a result with a new item: its url is a feed of the store.
C35_Witness ==
    /\ cmd = "fetch" /\ pc = "items"
    /\ opts.some /\ ~(opts.feed_urls \subseteq DOMAIN db.feeds)
    /\ cur.url \in DOMAIN db.feeds
    /\ todo # {}

(***************************************************************************)
(* C36.  A failed or skipped delivery.                                     *)
(***************************************************************************)
\* The new items of the result under reconciliation that the loop has not
\* reached.
Unreached == {<<cur.url, i>> : i \in todo}

\* C36 as stated: an item whose send failed in an earlier session is handed
\* to the Sender by the next session in which its feed yields it, that is,
\* whenever the loop over the new items takes it.
C36_AlwaysRetried ==
    [][(cmd = "fetch" /\ pc = "items"
          /\ \E i \in todo \ todo' : <<cur.url, i>> \in lost)
          => nsend' = nsend + 1]_vars

\* C36, amended: at the end of a session the items whose send failed and the
\* new items not reached are unrecorded, and the commit leaves them
\* unrecorded in the database file, where the failed ones count as handed
\* over and not recorded.
C36_Inv ==
    (cmd = "fetch" /\ pc = "commit") =>
        (sessFail \cup Unreached) \cap PairsIn(db.feeds) = {}

C36_CommitStep ==
    (cmd = "fetch" /\ pc = "commit") =>
        /\ disk'.kind = "db" =>
              (sessFail \cup Unreached) \cap PairsIn(FromJson(disk'.json)) = {}
        /\ sessFail \subseteq lost'

\* C36, amended: in a later session every item that the feed yields and
\* that is unrecorded counts as new again, such an item stays unrecorded
\* until the loop takes it, and when the loop takes it the Sender is called
\* for it, unless the session runs with no_send: then it is recorded
\* without a call of the Sender.
C36_FetchStep ==
    (cmd = "fetch" /\ pc = "poll" /\ pc' = "items") =>
        /\ todo' = {i \in DOMAIN cur'.items : <<cur'.url, i>> \notin PairsIn(db.feeds)}
        /\ Unreached' \cap PairsIn(db'.feeds) = {}

C36_ItemStep ==
    (cmd = "fetch" /\ pc = "items" /\ todo' # todo) =>
        /\ Unreached' \cap PairsIn(db'.feeds) = {}
        /\ IF opts.no_send
              THEN nsend' = nsend /\ (Unreached \ Unreached') \subseteq PairsIn(db'.feeds)
              ELSE nsend' = nsend + 1
                     /\ (Unreached \ Unreached') \subseteq (sessOk' \cup sessFail')

C36_RetriedUnlessNoSend ==
    []C36_Inv /\ [][C36_CommitStep /\ C36_FetchStep /\ C36_ItemStep]_vars

\* A pair whose send failed in the first session was handed to the Sender
\* again in the second one, with success, while the database file does not
\* record it.
C36_Witness ==
    /\ cmd = "fetch" /\ pc = "items" /\ clock = 2
    /\ \E p \in lost \cap sessOk :
          /\ p \notin PairsIn(db0)
          /\ p \in PairsIn(db.feeds)
          /\ disk.kind = "db" /\ p \notin PairsIn(FromJson(disk.json))

(***************************************************************************)
(* C37.  Workers when the session stops consuming early.                   *)
(***************************************************************************)
\* C37: once the stream is dropped no worker is parked, and every worker
\* eventually exits, provided every network request returns.
C37_NoneParked == recv_chan = "dropped" => parked = << >>

C37_WorkersExit == (recv_chan = "dropped" ~> AllExited) /\ []C37_NoneParked

\* The stream was dropped while a worker was blocked in send on the full
\* channel; every worker has exited.
C37_Witness ==
    /\ recv_chan = "dropped"
    /\ woken # {}
    /\ AllExited

(***************************************************************************)
(* C38.  A feed that is removed and added again.                           *)
(***************************************************************************)
\* C38: a successful remove_feed(u) leaves no record of u or of its items;
\* a successful add_feed(u) leaves u with no title and no item record, in
\* the store and in the database file its commit writes; and every item
\* that a feed with no item record yields in a session counts as new.
C38_Step ==
    /\ (cmd = "remove" /\ pc = "remove" /\ result' = "ok") =>
          /\ arg \notin DOMAIN db'.feeds
          /\ PairsOf(arg) \cap PairsIn(db'.feeds) = {}
    /\ (cmd = "add" /\ pc = "add" /\ result' = "ok") =>
          /\ db'.feeds[arg].title = None
          /\ DOMAIN db'.feeds[arg].items = {}
    /\ (cmd = "add" /\ pc = "commit" /\ result' = "ok") =>
          /\ disk'.kind = "db"
          /\ FromJson(disk'.json)[arg].title = None
          /\ DOMAIN FromJson(disk'.json)[arg].items = {}
    /\ (cmd = "fetch" /\ pc = "poll" /\ pc' = "items"
          /\ DOMAIN db0[cur'.url].items = {}) =>
          todo' = DOMAIN cur'.items

C38_ReaddedStartsEmpty == [][C38_Step]_vars

\* The pair Watched was handed to the Sender, its feed was removed since and
\* is a feed of the store again, with no title and no item record when this
\* session began; the feed yields the item, which counts as new.
C38_Witness ==
    /\ cmd = "fetch" /\ pc = "items"
    /\ watched = "forgotten"
    /\ cur.url = Watched[1]
    /\ db0[Watched[1]].title = None
    /\ DOMAIN db0[Watched[1]].items = {}
    /\ Watched[2] \in todo
    /\ todo = DOMAIN cur.items

(***************************************************************************)
(* C39.  Commands that do not commit.                                      *)
(***************************************************************************)
\* The command ends on a store operation that failed.
OperationFailed ==
    pc = "exit" /\ call \in {"open", "add_feed", "remove_feed"} /\ result # "ok"

\* C39: a command whose store operation failed has called no commit, and
\* the list command never calls commit.
C39_Inv ==
    /\ OperationFailed => ncommit = 0
    /\ cmd = "list" => ncommit = 0 /\ pc # "commit"

\* C39: add of an existing feed, remove of a missing feed and open of a
\* missing or corrupt database fail and end the command; no step of a
\* command changes the database file but its commit, so the file is as it
\* was when such a command, or a list command, ends.
C39_Step ==
    /\ (cmd = "add" /\ pc = "add" /\ arg \in DOMAIN db.feeds) =>
          pc' = "exit" /\ result' # "ok"
    /\ (cmd = "remove" /\ pc = "remove" /\ arg \notin DOMAIN db.feeds) =>
          pc' = "exit" /\ result' # "ok"
    /\ (pc = "open" /\ disk.kind # "db") => pc' = "exit" /\ result' # "ok"
    /\ disk' # disk => pc = "commit"
    /\ cmd = "list" => disk' = disk
    /\ OperationFailed => disk' = disk

C39_NoCommitNoChange == []C39_Inv /\ [][C39_Step]_vars

\* An add command ends on add_feed's error for a feed that the database
\* file records with an item: no commit was called.
C39_Witness ==
    /\ cmd = "add" /\ OperationFailed
    /\ call = "add_feed"
    /\ ncommit = 0
    /\ disk.kind = "db"
    /\ PairsOf(arg) \cap PairsIn(FromJson(disk.json)) # {}

=============================================================================
